---- MODULE Spec2Model ----
(***************************************************************************)
(* Matching-and-notification pipeline of Alize (backend/app).              *)
(*                                                                         *)
(* The listings table is the sequence of stored urls and the ledger maps a *)
(* (user, job) pair to its rows; every HTTP handler is one action; the     *)
(* scheduler/admin notification run (notify_all_users) is a process that   *)
(* walks the enabled users and, per user, goes through the cooldown gate,  *)
(* the search, the selection of the digest rows and the send/stamp step.   *)
(* Titles, companies and keywords are strings, normalised the way the     *)
(* code does it.  Times are minutes on an integer clock.                   *)
(***************************************************************************)
EXTENDS Integers, Sequences, FiniteSets, TLC

\* ------------------------------------------------------------------ bounds
MaxUsers == 2
MaxJobs == 2
MaxRequests == 2
MaxConcRequests == 1
MaxRuns == 2
MaxLedgerRequests == 4
MaxProfileRequests == 2
MaxAccountRequests == 4
MaxClock == 2

\* ------------------------------------------------------- program constants
NOTIFY_INTERVAL_MINUTES == 4320
SCHEDULER_INTERVAL_MINUTES == 60
DEFAULT_MAX_JOBS == 5
BASE_WITH_PREFS == 35
BASE_NO_PREFS == 50

NULL == -1

Users == 1..MaxUsers
Urls == 1..MaxJobs
Runners == {"scheduler", "admin"}
Statuses == {"new", "viewed", "saved", "deleted"}

FREQUENCY_MINUTES(f) ==
    CASE f = "daily" -> 1440
      [] f = "weekly" -> 10080
      [] f = "every_3_days" -> 4320
      [] OTHER -> NOTIFY_INTERVAL_MINUTES

\* ----------------------------------------------------------- small helpers
Max2(a, b) == IF a >= b THEN a ELSE b
Min2(a, b) == IF a <= b THEN a ELSE b

RECURSIVE SeqToSet(_)
SeqToSet(s) == IF s = <<>> THEN {} ELSE {Head(s)} \cup SeqToSet(Tail(s))

\* ------------------------------------------------------------------ texts
\* Character i of a text, as a text of length one.
Ch(t, i) == SubSeq(t, i, i)

\* A table of characters: each character of `from` paired with the character
\* at the same place in `to`.
CharTable(from, to) ==
    [c \in {Ch(from, i) : i \in 1..Len(from)} |->
        Ch(to, CHOOSE i \in 1..Len(from) : Ch(from, i) = c)]

\* The character paired with c in the table, or c itself.
Translate(c, table) == IF c \in DOMAIN table THEN table[c] ELSE c

UpperCase == "ABCDEFGHIJKLMNOPQRSTUVWXYZÉÈÀÇ"
LowerCase == "abcdefghijklmnopqrstuvwxyzéèàç"
LowerTable == CharTable(UpperCase, LowerCase)

\* str.lower()
RECURSIVE str_lower(_)
str_lower(t) ==
    IF Len(t) = 0 THEN ""
    ELSE IF Len(t) = 1 THEN Translate(t, LowerTable)
    ELSE str_lower(SubSeq(t, 1, Len(t) \div 2)) \o str_lower(SubSeq(t, Len(t) \div 2 + 1, Len(t)))

\* str.strip()
RECURSIVE str_strip(_)
str_strip(t) ==
    IF Len(t) = 0 THEN ""
    ELSE IF Ch(t, 1) = " " THEN str_strip(SubSeq(t, 2, Len(t)))
    ELSE IF Ch(t, Len(t)) = " " THEN str_strip(SubSeq(t, 1, Len(t) - 1))
    ELSE t

Accented == "éèêëàâçîïôùûü"
Unaccented == "eeeeaaciiouuu"
AccentTable == CharTable(Accented, Unaccented)

\* unicodedata.normalize("NFD", text) with the combining marks removed
RECURSIVE strip_accents(_)
strip_accents(t) ==
    IF Len(t) = 0 THEN ""
    ELSE Translate(Ch(t, 1), AccentTable) \o strip_accents(SubSeq(t, 2, Len(t)))

AlnumSpace == "abcdefghijklmnopqrstuvwxyz0123456789 "
AlnumSpaceChars == {Ch(AlnumSpace, i) : i \in 1..Len(AlnumSpace)}

\* re.sub(r"[^a-z0-9\s]", "", text)
RECURSIVE keep_alnum_space(_)
keep_alnum_space(t) ==
    IF Len(t) = 0 THEN ""
    ELSE (IF Ch(t, 1) \in AlnumSpaceChars THEN Ch(t, 1) ELSE "")
            \o keep_alnum_space(SubSeq(t, 2, Len(t)))

\* re.sub(r"\s+", " ", text)
RECURSIVE collapse_spaces(_)
collapse_spaces(t) ==
    IF Len(t) < 2 THEN t
    ELSE IF Ch(t, 1) = " " /\ Ch(t, 2) = " " THEN collapse_spaces(SubSeq(t, 2, Len(t)))
    ELSE Ch(t, 1) \o collapse_spaces(SubSeq(t, 2, Len(t)))

\* normalize_text: lower case, no accents, no punctuation, single spaces.
normalize_text(t) ==
    IF t = "" THEN ""
    ELSE str_strip(collapse_spaces(keep_alnum_space(strip_accents(str_strip(str_lower(t))))))

\* k in text
contains(text, k) ==
    \E i \in 1..(Len(text) - Len(k) + 1) : SubSeq(text, i, i + Len(k) - 1) = k

\* raw.split(","): the items, in order
RECURSIVE split_commas(_, _)
split_commas(t, item) ==
    IF Len(t) = 0 THEN <<item>>
    ELSE IF Ch(t, 1) = "," THEN <<item>> \o split_commas(SubSeq(t, 2, Len(t)), "")
    ELSE split_commas(SubSeq(t, 2, Len(t)), item \o Ch(t, 1))

\* str.split(): the words between the spaces, in order
RECURSIVE split_words(_, _)
split_words(t, word) ==
    IF Len(t) = 0 THEN (IF word = "" THEN <<>> ELSE <<word>>)
    ELSE IF Ch(t, 1) = " "
         THEN (IF word = "" THEN <<>> ELSE <<word>>) \o split_words(SubSeq(t, 2, Len(t)), "")
    ELSE split_words(SubSeq(t, 2, Len(t)), word \o Ch(t, 1))

NotBlank(item) == str_strip(item) # ""

\* [x.strip() for x in items]
Stripped(items) == [i \in DOMAIN items |-> str_strip(items[i])]

\* any(k in text for k in items)
AnyIn(items, text) == \E i \in DOMAIN items : contains(text, items[i])

\* sum(1 for k in items if k in text)
CountIn(items, text) == Cardinality({i \in DOMAIN items : contains(text, items[i])})

StripLower(item) == str_lower(str_strip(item))

\* [x.strip().lower() for x in items]
StrippedLower(items) == [i \in DOMAIN items |-> StripLower(items[i])]

\* norm_list: the items of a comma-separated preference, stripped and lowered.
norm_list(raw) ==
    IF raw = "" THEN <<>>
    ELSE StrippedLower(SelectSeq(split_commas(raw, ""), NotBlank))

\* ------------------------------------------------- provider catalogue, CVs
\* What the job sources can return for each distinct (normalized) URL.
Catalog(k) ==
    CASE k = 1 -> [url |-> 1, title |-> "Data Analyst", company |-> "Acme",
                   location |-> "Paris", description |-> "SQL, Python. CDI.",
                   desc_len |-> 900, salary_min |-> NULL]
      [] k = 2 -> [url |-> 2, title |-> "Stage Data Analyst", company |-> "Globex",
                   location |-> "Lyon", description |-> "SQL",
                   desc_len |-> 50, salary_min |-> NULL]
      [] k = 11 -> [url |-> 11, title |-> "Développeur Data", company |-> "Société Générale",
                    location |-> "Paris", description |-> "Python",
                    desc_len |-> 900, salary_min |-> 30000]
      [] k = 12 -> [url |-> 12, title |-> "Developpeur Data", company |-> "Societe Generale",
                    location |-> "Paris", description |-> "Python",
                    desc_len |-> 900, salary_min |-> NULL]
      [] k = 13 -> [url |-> 13, title |-> "DATA ANALYST", company |-> "ACME",
                    location |-> "Lyon", description |-> "SQL",
                    desc_len |-> 50, salary_min |-> 50000]
      [] k = 14 -> [url |-> 14, title |-> "Data Engineer", company |-> "Acme, Corp.",
                    location |-> "Paris", description |-> "SQL",
                    desc_len |-> 50, salary_min |-> 45000]
      [] k = 15 -> [url |-> 15, title |-> "Data Engineer", company |-> "Acme Corp",
                    location |-> "Paris", description |-> "SQL",
                    desc_len |-> 50, salary_min |-> 44999]
      [] k = 16 -> [url |-> 16, title |-> "data engineer", company |-> "ACME CORP",
                    location |-> "Paris", description |-> "SQL",
                    desc_len |-> 50, salary_min |-> NULL]
      [] k = 21 -> [url |-> 21, title |-> "Développeur Python", company |-> "Initech",
                    location |-> "Lyon", description |-> "Télétravail possible. Mission longue.",
                    desc_len |-> 1600, salary_min |-> 40000]
      [] k >= 100 -> [url |-> k, title |-> "Clerk " \o ToString(k), company |-> "Acme Corp",
                    location |-> "Paris", description |-> "",
                    desc_len |-> 0, salary_min |-> NULL]
      [] OTHER -> [url |-> k, title |-> "Developer", company |-> "Initech",
                   location |-> "Remote", description |-> "Python",
                   desc_len |-> 1600, salary_min |-> 30000]

\* A posting with a long description that offers remote work.
REMOTE_POSTING == 21

\* Postings that spell a title or a company with other case, accents or
\* punctuation.
VariantPostings == 11..16

\* Search-related preference payloads a user can submit.
SearchProfiles ==
    { [role |-> "Data Analyst", location |-> "Paris", contract_type |-> "",
       salary_min |-> NULL, must_keywords |-> "SQL", avoid_keywords |-> ""],
      [role |-> "Data Analyst", location |-> "Paris", contract_type |-> "CDI",
       salary_min |-> 45000, must_keywords |-> "SQL, Power BI",
       avoid_keywords |-> "Stage, alternance"] }

\* Texts extracted from uploaded CVs.
SampleCv == "SQL Python analytics"

RECURSIVE Skills(_, _)
Skills(from, to) ==
    IF from > to THEN "" ELSE " skill" \o ToString(from) \o Skills(from + 1, to)

\* More distinct words than cv_keywords keeps, the repeated ones last.
LongCv == "Profil:" \o Skills(1, 44) \o " Python, SQL; python"

CvTexts ==
    {SampleCv, LongCv, "", "2020 2021 C++ c# Node.js 3.5",
     "Le projet de la société: gestion des données, DONNÉES et données en 2024",
     "go R c de 42"}

VARIABLES
    now,            \* wall clock, minutes
    requests,       \* number of user requests served so far (bounded by MaxRequests)
    users,          \* table users: user -> [email, password_hash, notifications_enabled,
                    \* email_verified, unsubscribe_token (<<>> when null)], or NoUser
                    \* once the account is deleted
    runs,           \* number of notification runs started so far (bounded by MaxRuns)
    prefs,          \* table user_preferences: user -> row or NoPref
    cvs,            \* table cvs: user -> its CV rows, newest first ([text |-> <<>> when null, else <<text>>])
    job_listings,   \* table job_listings: the stored urls, oldest first
    user_jobs,      \* table user_jobs (the ledger): <<user, job>> -> its rows, oldest first
    run,            \* per runner: position inside notify_all_users
    event,          \* observation: what the last step did (run step, probe visit, call/return)
    digests,        \* observation: <<user, job>> -> number of sent digests listing the job
    last_pass,      \* observation: user -> run time of the last gate pass
    search_runs,    \* table job_search_runs: user -> its rows [id, created_at], by id
    reset_tokens    \* table password_reset_tokens: rows [user_id, token, expires_at, used], by id

vars == <<now, requests, users, runs, prefs, cvs, job_listings, user_jobs, run, event,
          digests, last_pass, search_runs, reset_tokens>>

NoPref == [none |-> TRUE]
NoUser == [deleted |-> TRUE]
NoEvent == [type |-> "none"]

\* ------------------------------------------------------------ score_job
REMOTE_TERMS == <<"remote", "télétravail", "hybride">>

contract_map(c) ==
    CASE c = "cdi" -> <<"cdi", "permanent", "indéterminée", "contrat indéterminé">>
      [] c = "cdd" -> <<"cdd", "déterminée", "temporary", "contrat déterminé">>
      [] c = "stage" -> <<"stage", "internship", "intern", "stagiaire">>
      [] c = "alternance" -> <<"alternance", "apprentissage", "apprenticeship", "apprenti">>
      [] c = "freelance" -> <<"freelance", "indépendant", "contractor", "mission">>
      [] OTHER -> <<>>

\* text: title, company, location and description in one lower-case text.
text(job) ==
    str_lower(job.title \o " " \o job.company \o " " \o job.location
                \o " " \o job.description)

\* text, title_lower and location_lower of every posting of the catalogue,
\* computed once.
ScoredPostings == Urls \cup VariantPostings \cup {REMOTE_POSTING}
Texts == [k \in ScoredPostings |-> text(Catalog(k))]
TitlesLower == [k \in ScoredPostings |-> str_lower(Catalog(k).title)]
LocationsLower == [k \in ScoredPostings |-> str_lower(Catalog(k).location)]

\* Hard filters: avoid keyword anywhere in the text, or known salary below floor.
Excluded(job, pref) ==
    \/ AnyIn(norm_list(pref.avoid_keywords), Texts[job.url])
    \/ (pref.salary_min # NULL /\ pref.salary_min # 0
        /\ job.salary_min # NULL /\ job.salary_min < pref.salary_min)

\* (pref.<field> or "").lower().strip()
Wanted(field) == str_strip(str_lower(field))

LongWord(word) == Len(word) > 3

\* +25 role in the title, +15 a word of the role in the title, else -5.
RoleBonus(job, pref) ==
    IF Wanted(pref.role) = "" THEN 0
    ELSE IF contains(TitlesLower[job.url], Wanted(pref.role)) THEN 25
    ELSE IF AnyIn(SelectSeq(split_words(Wanted(pref.role), ""), LongWord),
                  TitlesLower[job.url]) THEN 15
    ELSE -5

\* location_match: a comma-separated item of the wanted location in the location.
LocationMatch(job, loc) ==
    AnyIn(SelectSeq(Stripped(split_commas(loc, "")), NotBlank), LocationsLower[job.url])

\* +15 location matches, +12 remote wanted and offered.
LocationBonus(job, pref) ==
    IF Wanted(pref.location) = "" THEN 0
    ELSE IF LocationMatch(job, Wanted(pref.location)) THEN 15
    ELSE IF /\ \E i \in DOMAIN REMOTE_TERMS : contains(Wanted(pref.location), REMOTE_TERMS[i])
            /\ AnyIn(REMOTE_TERMS, Texts[job.url]) THEN 12
    ELSE 0

\* must_ratio = hits / n against 0.8 and 0.5.
MustScore(hits, n) ==
    IF 5 * hits >= 4 * n THEN 20
    ELSE IF 2 * hits >= n THEN 12
    ELSE IF hits > 0 THEN hits * 3
    ELSE -5

MustBonus(job, pref) ==
    IF norm_list(pref.must_keywords) = <<>> THEN 0
    ELSE MustScore(CountIn(norm_list(pref.must_keywords), Texts[job.url]),
                   Len(norm_list(pref.must_keywords)))

ContractBonus(job, pref) ==
    IF Wanted(pref.contract_type) = "" THEN 0
    ELSE IF contains(Texts[job.url], Wanted(pref.contract_type)) THEN 10
    ELSE IF AnyIn(contract_map(Wanted(pref.contract_type)), Texts[job.url]) THEN 10
    ELSE 0

\* has_preferences = bool(role or loc or must or contract_pref)
HasPreferences(pref) ==
    \/ Wanted(pref.role) # ""
    \/ Wanted(pref.location) # ""
    \/ norm_list(pref.must_keywords) # <<>>
    \/ Wanted(pref.contract_type) # ""

\* match_ratio = m / n against 0.35, 0.20, 0.10 and 0.05; int(cv_bonus_max * f).
CvScore(m, n, cv_bonus_max) ==
    IF 100 * m >= 35 * n THEN cv_bonus_max
    ELSE IF 100 * m >= 20 * n THEN (cv_bonus_max * 7) \div 10
    ELSE IF 100 * m >= 10 * n THEN (cv_bonus_max * 4) \div 10
    ELSE IF 100 * m >= 5 * n THEN (cv_bonus_max * 2) \div 10
    ELSE 0

CvBonus(job, pref, user_cv) ==
    IF user_cv = {} THEN 0
    ELSE CvScore(Cardinality({kw \in user_cv : contains(Texts[job.url], kw)}),
                 Cardinality(user_cv),
                 IF HasPreferences(pref) THEN 20 ELSE 30)

\* desc_len = len(job.description or "")
DescBonus(job) ==
    IF job.desc_len > 1500 THEN 5
    ELSE IF job.desc_len > 800 THEN 3
    ELSE IF job.desc_len < 100 THEN -3
    ELSE 0

\* The score before it is clamped.
RawScore(job, pref, user_cv) ==
    (IF HasPreferences(pref) THEN BASE_WITH_PREFS ELSE BASE_NO_PREFS)
        + RoleBonus(job, pref) + LocationBonus(job, pref) + MustBonus(job, pref)
        + ContractBonus(job, pref) + CvBonus(job, pref, user_cv) + DescBonus(job)

\* Faulty variant of score_job: the sum is returned as it is.
score_job_unclamped(job, pref, user_cv) ==
    IF Excluded(job, pref) THEN NULL ELSE RawScore(job, pref, user_cv)

\* NULL when the job is filtered out, else a score clamped to 0..100.
score_job(job, pref, user_cv) ==
    IF Excluded(job, pref) THEN NULL
    ELSE Max2(0, Min2(RawScore(job, pref, user_cv), 100))

\* max(0, min(10, round(score / 10))) with Python's round-half-to-even.
Score10(score) ==
    LET q == score \div 10
        r == score % 10
        rounded == IF r < 5 THEN q
                   ELSE IF r > 5 THEN q + 1
                   ELSE IF q % 2 = 0 THEN q ELSE q + 1
    IN  Max2(0, Min2(10, rounded))

\* ------------------------------------------------- _extract_match_reasons
\* The characters of keywords, in code point order.
CodeOrder == "#+.0123456789abcdefghijklmnopqrstuvwxyzàâäçèéêëîïôùûü"
CodeRank == [c \in {Ch(CodeOrder, i) : i \in 1..Len(CodeOrder)} |->
                CHOOSE i \in 1..Len(CodeOrder) : Ch(CodeOrder, i) = c]

\* a < b on strings
RECURSIVE str_lt(_, _)
str_lt(a, b) ==
    IF Len(b) = 0 THEN FALSE
    ELSE IF Len(a) = 0 THEN TRUE
    ELSE IF Ch(a, 1) = Ch(b, 1) THEN str_lt(SubSeq(a, 2, Len(a)), SubSeq(b, 2, Len(b)))
    ELSE CodeRank[Ch(a, 1)] < CodeRank[Ch(b, 1)]

\* sorted(words)[:n]
SortedHead(words, n) ==
    [i \in 1..Min2(n, Cardinality(words)) |->
        CHOOSE w \in words : Cardinality({v \in words : str_lt(v, w)}) = i - 1]

\* items[:n]
Head_n(items, n) == SubSeq(items, 1, Min2(n, Len(items)))

\* [k for k in items if k in text]
HitsIn(items, text_lower) ==
    LET InText(k) == contains(text_lower, k) IN SelectSeq(items, InText)

\* [prefix + k for k in items]
Labelled(prefix, items) == [i \in DOMAIN items |-> prefix \o items[i]]

RoleReason(job, role) ==
    IF role = "" THEN <<>>
    ELSE IF contains(TitlesLower[job.url], str_lower(role)) THEN <<"Rôle: " \o role>>
    ELSE IF AnyIn(SelectSeq(split_words(str_lower(role), ""), LongWord), TitlesLower[job.url])
         THEN <<"Rôle proche: " \o role>>
    ELSE <<>>

LocationReason(job, loc) ==
    IF loc = "" THEN <<>>
    ELSE IF AnyIn(StrippedLower(SelectSeq(split_commas(loc, ""), NotBlank)),
                  LocationsLower[job.url])
         THEN <<"Localisation: " \o loc>>
    ELSE <<>>

MustReasons(job, pref) ==
    Labelled("Mot-clé: ", Head_n(HitsIn(norm_list(pref.must_keywords), Texts[job.url]), 2))

CvReasons(job, user_cv) ==
    Labelled("CV: ", SortedHead({kw \in user_cv : contains(Texts[job.url], kw)}, 2))

extract_match_reasons(job, pref, user_cv, max_items) ==
    Head_n(RoleReason(job, str_strip(pref.role)) \o LocationReason(job, str_strip(pref.location))
              \o MustReasons(job, pref) \o CvReasons(job, user_cv),
           max_items)
\* ------------------------------------------------------------- the tables
\* job_listings.url is unique, so a listing is identified by its url and the
\* ledger's job_id is that url.  user_jobs row: [score, status, viewed_at,
\* notified_at]; the rows of one (user_id, job_id) pair are kept in a sequence,
\* so that a duplicate pair is a sequence of length 2 or more.
Stored(listings) == SeqToSet(listings)

Pairs == Users \X Urls

\* query(UserJob).filter(user_id, job_id).first(): index of the row, NULL when none.
FirstRow(table, user_id, job_id) ==
    IF table[<<user_id, job_id>>] = <<>> THEN NULL ELSE 1

\* UPDATE of status and viewed_at of the row found by FirstRow.
UpdateRow(table, user_id, job_id, status, viewed_at) ==
    [table EXCEPT ![<<user_id, job_id>>][1] = [@ EXCEPT !.status = status, !.viewed_at = viewed_at]]

\* Defaults written by get_or_create_pref for a user without preferences.
DefaultPref ==
    [role |-> "", location |-> "", contract_type |-> "", salary_min |-> NULL,
     must_keywords |-> "", avoid_keywords |-> "",
     notification_frequency |-> "every_3_days", send_empty_digest |-> TRUE,
     notification_max_jobs |-> NULL, last_search_at |-> NULL, last_email_at |-> NULL]

get_or_create_pref(u) == IF prefs[u] = NoPref THEN DefaultPref ELSE prefs[u]

\* ------------------------------------------------------------- cv_keywords
STOP_WORDS ==
    {"le", "la", "les", "de", "du", "des", "un", "une", "et", "en", "est", "sont",
     "pour", "dans", "sur", "avec", "par", "aux", "qui", "que", "cette", "ces",
     "son", "ses", "nous", "vous", "leur", "leurs", "plus", "tout", "tous", "très",
     "bien", "peut", "faire", "fait", "être", "avoir", "sans", "comme", "aussi",
     "entre", "après", "avant", "sous", "chez", "dont", "donc", "mais", "car",
     "the", "and", "for", "with", "from", "that", "this", "have", "has", "was",
     "were", "been", "being", "are", "will", "would", "could", "should", "can",
     "may", "might", "must", "shall", "into", "over", "such", "than", "then",
     "them", "these", "those", "what", "which", "when", "where", "while", "who",
     "how", "all", "each", "every", "both", "few", "more", "most", "other", "some",
     "any", "only", "own", "same", "just", "also", "now", "here", "there", "about",
     "année", "années", "ans", "mois", "jour", "jours", "experience", "expérience",
     "travail", "work", "job", "poste", "mission", "missions", "projet", "projets",
     "project", "projects", "team", "équipe", "client", "clients", "company",
     "entreprise", "société", "gestion", "management", "développement", "development"}

TOP_KEYWORDS == 40

TokenAlphabet == "abcdefghijklmnopqrstuvwxyzàâäéèêëïîôùûüç0123456789#+."
TokenChars == {Ch(TokenAlphabet, i) : i \in 1..Len(TokenAlphabet)}

\* re.findall(r'[a-zàâäéèêëïîôùûüç0-9#+.]+', text): the maximal runs of token
\* characters, in order.
findall_tokens(t) ==
    LET IsToken(i) == i \in 1..Len(t) /\ Ch(t, i) \in TokenChars
        starts == {i \in 1..Len(t) : IsToken(i) /\ ~IsToken(i - 1)}
        ends == {i \in 1..Len(t) : IsToken(i) /\ ~IsToken(i + 1)}
        Nth(S, n) == CHOOSE i \in S : Cardinality({j \in S : j < i}) = n - 1
    IN  [n \in 1..Cardinality(starts) |-> SubSeq(t, Nth(starts, n), Nth(ends, n))]

DigitChars == {"0", "1", "2", "3", "4", "5", "6", "7", "8", "9"}

\* str.isdigit()
isdigit(t) == Len(t) > 0 /\ \A i \in 1..Len(t) : Ch(t, i) \in DigitChars

\* Faulty variant of Relevant: the stop words pass.
RelevantOrStopWord(t) == Len(t) > 2 /\ ~isdigit(t)

\* The filter on the tokens: long enough, no stop word, not a number.
Relevant(t) == Len(t) > 2 /\ t \notin STOP_WORDS /\ ~isdigit(t)

Occurrences(tokens, w) == Cardinality({i \in DOMAIN tokens : tokens[i] = w})

FirstIndex(tokens, w) == CHOOSE i \in DOMAIN tokens : tokens[i] = w /\ \A j \in 1..(i - 1) : tokens[j] # w

\* Counter(tokens).most_common(n): by decreasing count, words of equal count
\* in the order of their first occurrence.
most_common(tokens, n) ==
    LET words == SeqToSet(tokens)
        count == [w \in words |-> Occurrences(tokens, w)]
        first == [w \in words |-> FirstIndex(tokens, w)]
        Before(v, w) == count[v] > count[w] \/ (count[v] = count[w] /\ first[v] < first[w])
    IN  {w \in words : Cardinality({v \in words : Before(v, w)}) < n}

\* The keywords of a CV text.
Keywords(cv_text) ==
    most_common(SelectSeq(findall_tokens(str_lower(cv_text)), Relevant), TOP_KEYWORDS)

\* The keywords of every CV text, computed once.
KeywordTable == [t \in CvTexts |-> Keywords(t)]

\* The user's latest CV row; no row, or a row whose text is null (<<>>) or
\* empty, gives the empty set.
cv_keywords(u) ==
    IF cvs[u] = <<>> THEN {}
    ELSE IF cvs[u][1].text = <<>> THEN {}
    ELSE IF cvs[u][1].text[1] = "" THEN {}
    ELSE KeywordTable[cvs[u][1].text[1]]


\* Notification settings a stored preference row can carry.
NotificationSettings ==
    { [notification_frequency |-> "daily", send_empty_digest |-> TRUE, notification_max_jobs |-> 1],
      [notification_frequency |-> "weekly", send_empty_digest |-> FALSE, notification_max_jobs |-> 0] }

FirstProfile == CHOOSE p \in SearchProfiles : p.avoid_keywords = ""

InitPrefRows ==
    { [role |-> FirstProfile.role, location |-> FirstProfile.location,
       contract_type |-> FirstProfile.contract_type, salary_min |-> NULL,
       must_keywords |-> FirstProfile.must_keywords, avoid_keywords |-> "",
       notification_frequency |-> n.notification_frequency,
       send_empty_digest |-> n.send_empty_digest,
       notification_max_jobs |-> n.notification_max_jobs,
       last_search_at |-> NULL, last_email_at |-> NULL]
      : n \in NotificationSettings }

\* ------------------------------------------------------------- the accounts
Email(u) == "user" \o ToString(u) \o "@example.com"

InitialPassword == "TestPassword123!"

\* pwd_context.hash: the hash carries the password it was made from.
hash_password(password) == "$2b$12$" \o password

\* pwd_context.verify
verify_password(password, password_hash) == password_hash = hash_password(password)

\* The accounts after registration; digests are enabled for the accounts of
\* `enabled`, the others have unsubscribed.
Registered(enabled) ==
    [u \in Users |-> [email |-> Email(u), password_hash |-> hash_password(InitialPassword),
                      notifications_enabled |-> u \in enabled, email_verified |-> TRUE,
                      unsubscribe_token |-> <<>>]]

FirstOnly == {1}

Idle == [pc |-> "idle", now |-> NULL, todo |-> <<>>, records |-> <<>>, jobs |-> <<>>,
         pending |-> <<>>, inserted |-> 0, top_jobs |-> <<>>]

\* The tables once the accounts exist, with digests enabled for `enabled`.
Start(enabled) ==
    /\ now = 0
    /\ requests = 0
    /\ users = Registered(enabled)
    /\ runs = 0
    /\ \E first \in InitPrefRows \cup {NoPref} :
          prefs = [u \in Users |-> IF u = 1 THEN first ELSE NoPref]
    /\ cvs = [u \in Users |-> IF u = 1 THEN <<[text |-> <<SampleCv>>]>> ELSE <<>>]
    /\ job_listings = <<>>
    /\ user_jobs = [k \in Pairs |-> <<>>]
    /\ run = [r \in Runners |-> Idle]
    /\ event = NoEvent
    /\ digests = [k \in Pairs |-> 0]
    /\ last_pass = [u \in Users |-> NULL]
    /\ search_runs = [u \in Users |-> <<>>]
    /\ reset_tokens = <<>>

Init == Start(FirstOnly)

\* -------------------------------------------------------------- the clock
\* The instants the environment lets the clock jump to: the minutes around
\* the end of some user's cooldown, and the next scheduler tick.
TickTargets ==
    {prefs[u].last_search_at + FREQUENCY_MINUTES(prefs[u].notification_frequency) + d :
        u \in {v \in Users : prefs[v] # NoPref /\ prefs[v].last_search_at # NULL},
        d \in {-1, 0, 1}}
    \cup {run[r].now + SCHEDULER_INTERVAL_MINUTES : r \in {q \in Runners : run[q].now # NULL}}

Tick ==
    /\ \E t \in TickTargets : t > now /\ now' = t
    /\ event' = NoEvent
    /\ UNCHANGED <<search_runs, reset_tokens, users, requests, runs, prefs, cvs, job_listings, user_jobs, run, digests, last_pass>>

\* ------------------------------------------------ ledger handlers (matches.py)
LedgerFrame == UNCHANGED <<search_runs, reset_tokens, users, now, runs, prefs, cvs, job_listings, run, digests, last_pass>>

\* DELETE /matches/{job_id}
delete_match(u, job_id) ==
    /\ FirstRow(user_jobs, u, job_id) # NULL
    /\ user_jobs' = UpdateRow(user_jobs, u, job_id, "deleted", user_jobs[<<u, job_id>>][1].viewed_at)
    /\ event' = NoEvent
    /\ LedgerFrame

\* Faulty variant of mark_visit: the row is marked viewed before the probe.
mark_visit_before_probe(u, job_id, check_url, alive) ==
    LET row == user_jobs[<<u, job_id>>][1]
        viewed_at == IF row.status = "new" THEN now ELSE row.viewed_at
    IN
    /\ FirstRow(user_jobs, u, job_id) # NULL
    /\ IF check_url /\ job_id \in Stored(job_listings) /\ ~alive
       THEN user_jobs' = UpdateRow(user_jobs, u, job_id, "deleted", viewed_at)
       ELSE user_jobs' = IF row.status = "new"
                         THEN UpdateRow(user_jobs, u, job_id, "viewed", now)
                         ELSE user_jobs
    /\ event' = IF check_url
                THEN [type |-> "visit",
                      code |-> IF job_id \in Stored(job_listings) /\ ~alive THEN 410 ELSE 200]
                ELSE NoEvent
    /\ LedgerFrame

\* is_job_url_alive: the probe's outcome is an input of the visit.
\* POST /matches/{job_id}/visit
mark_visit(u, job_id, check_url, alive) ==
    LET row == user_jobs[<<u, job_id>>][1] IN
    /\ FirstRow(user_jobs, u, job_id) # NULL
    /\ IF check_url /\ job_id \in Stored(job_listings) /\ ~alive
       THEN user_jobs' = UpdateRow(user_jobs, u, job_id, "deleted", row.viewed_at)
       ELSE user_jobs' = IF row.status = "new"
                         THEN UpdateRow(user_jobs, u, job_id, "viewed", now)
                         ELSE user_jobs
    /\ event' = IF check_url
                THEN [type |-> "visit",
                      code |-> IF job_id \in Stored(job_listings) /\ ~alive THEN 410 ELSE 200]
                ELSE NoEvent
    /\ LedgerFrame

\* Faulty variant of update_job_status: going back to 'new' re-arms the row.
update_job_status_rearm(u, job_id, status) ==
    LET row == user_jobs[<<u, job_id>>][1] IN
    /\ FirstRow(user_jobs, u, job_id) # NULL
    /\ user_jobs' = [user_jobs EXCEPT ![<<u, job_id>>][1] =
                        [@ EXCEPT !.status = status,
                                  !.notified_at = IF status = "new" THEN NULL ELSE @]]
    /\ event' = NoEvent
    /\ LedgerFrame

\* PUT /matches/{job_id}/status
update_job_status(u, job_id, status) ==
    LET row == user_jobs[<<u, job_id>>][1] IN
    /\ FirstRow(user_jobs, u, job_id) # NULL
    /\ user_jobs' = UpdateRow(user_jobs, u, job_id, status,
                              IF status = "viewed" /\ row.viewed_at = NULL
                              THEN now ELSE row.viewed_at)
    /\ event' = NoEvent
    /\ LedgerFrame

\* Faulty variant of save_job: viewed_at is written on every save.
save_job_overwriting(u, job_id) ==
    /\ FirstRow(user_jobs, u, job_id) # NULL
    /\ user_jobs' = UpdateRow(user_jobs, u, job_id, "saved", now)
    /\ event' = NoEvent
    /\ LedgerFrame

\* POST /matches/{job_id}/save
save_job(u, job_id) ==
    LET row == user_jobs[<<u, job_id>>][1] IN
    /\ FirstRow(user_jobs, u, job_id) # NULL
    /\ user_jobs' = UpdateRow(user_jobs, u, job_id, "saved",
                              IF row.viewed_at = NULL THEN now ELSE row.viewed_at)
    /\ event' = NoEvent
    /\ LedgerFrame

\* POST /matches/{job_id}/unsave
unsave_job(u, job_id) ==
    /\ FirstRow(user_jobs, u, job_id) # NULL
    /\ user_jobs' = UpdateRow(user_jobs, u, job_id, "viewed", user_jobs[<<u, job_id>>][1].viewed_at)
    /\ event' = NoEvent
    /\ LedgerFrame

\* ------------------------------------------- ingestion (search_jobs_for_user)
\* Declared on the user_jobs table: one row per (user_id, job_id).
UNIQUE_USER_JOB == TRUE

\* Columns title and company of the stored listing k, cut to the column size.
STORED_TEXT_MAX == 255
Truncate(t, n) == SubSeq(t, 1, Min2(n, Len(t)))
StoredTitle(k) == Truncate(Catalog(k).title, STORED_TEXT_MAX)
StoredCompany(k) == Truncate(Catalog(k).company, STORED_TEXT_MAX)

\* value ILIKE '%core%'
ilike(value, core) == contains(str_lower(value), str_lower(core))

COMPANY_PREFIX == 20
CANDIDATE_LIMIT == 100

\* Other postings of one company, as many as the candidate query returns.
FillerPostings == 100..(99 + CANDIDATE_LIMIT)

\* What the comparisons of find_duplicate_job compute for every posting of
\* the catalogue, computed once.
KnownPostings == Urls \cup VariantPostings \cup FillerPostings
NormalizedTitles == [k \in KnownPostings |-> normalize_text(StoredTitle(k))]
NormalizedCompanies == [k \in KnownPostings |-> normalize_text(StoredCompany(k))]
IncomingTitles == [k \in KnownPostings |-> normalize_text(Catalog(k).title)]
IncomingCompanies == [k \in KnownPostings |-> normalize_text(Catalog(k).company)]
LowerCompanies == [k \in KnownPostings |-> str_lower(StoredCompany(k))]

\* The rows matching JobListing.company.ilike(f"%{norm_company[:20]}%").
Candidates(listings, norm_company) ==
    {k \in Stored(listings) :
        contains(LowerCompanies[k], Truncate(norm_company, COMPANY_PREFIX))}

\* The sets of n elements of S.
RECURSIVE Drops(_, _)
Drops(S, n) ==
    IF n = 0 THEN {{}}
    ELSE UNION {{D \cup {x} : D \in Drops(S \ {x}, n - 1)} : x \in S}

\* The results .limit(100).all() can have: the query has no ORDER BY, so any
\* CANDIDATE_LIMIT of the matching rows.
CandidateWindows(listings, norm_company) ==
    LET all == Candidates(listings, norm_company) IN
    IF Cardinality(all) <= CANDIDATE_LIMIT THEN {all}
    ELSE {all \ D : D \in Drops(all, Cardinality(all) - CANDIDATE_LIMIT)}

\* The first of the matching candidates, NULL when there is none.
FirstOf(same) == IF same = {} THEN NULL ELSE CHOOSE k \in same : \A q \in same : k <= q

\* The comparison loop of find_duplicate_job on normalized texts.
SameTitleAndCompany(candidates, norm_title, norm_company) ==
    IF norm_title = "" \/ norm_company = "" THEN NULL
    ELSE FirstOf({k \in candidates : /\ NormalizedTitles[k] = norm_title
                                     /\ NormalizedCompanies[k] = norm_company})

\* find_duplicate_job, given the rows its candidate query returned: a
\* candidate with the same normalized title and company, else NULL.
find_duplicate_job(candidates, title, company) ==
    SameTitleAndCompany(candidates, normalize_text(title), normalize_text(company))

\* A URL as a provider returns it: the address of posting k, written with or
\* without a trailing slash, a query string and a fragment.
RawUrl(k, slash, query, fragment) ==
    [base |-> k, slash |-> slash, query |-> query, fragment |-> fragment]

\* normalize_url: query and fragment dropped, trailing slash stripped.
normalize_url(raw) == [raw EXCEPT !.slash = FALSE, !.query = "", !.fragment = ""]

\* Column url of the stored listing k (always a normalized URL).
StoredUrl(k) == RawUrl(k, FALSE, "", "")

\* db.query(JobListing).filter(JobListing.url == norm_url).first()
ListingByUrl(listings, norm_url) ==
    IF \E k \in Stored(listings) : StoredUrl(k) = norm_url
    THEN CHOOSE k \in Stored(listings) : StoredUrl(k) = norm_url
    ELSE NULL

\* Lookup done for every raw listing: exact normalized URL, then title+company.
\* The session does not autoflush, so only committed rows are seen.  The runs
\* store fewer than CANDIDATE_LIMIT listings, so the candidate query has one
\* possible result.
ExistingListing(listings, raw) ==
    IF ListingByUrl(listings, normalize_url(raw)) # NULL
    THEN ListingByUrl(listings, normalize_url(raw))
    ELSE SameTitleAndCompany(
             CHOOSE w \in CandidateWindows(listings, IncomingCompanies[raw.base]) : TRUE,
             IncomingTitles[raw.base], IncomingCompanies[raw.base])

\* The listing a new JobListing(url = norm_url) record becomes once stored.
RecordOf(raw) == CHOOSE k \in Urls : StoredUrl(k) = normalize_url(raw)

\* The new JobListing records added to the session, in order.
NewUrls(listings, batch) ==
    LET IsNew(raw) == ExistingListing(listings, raw) = NULL
        fresh == SelectSeq(batch, IsNew)
    IN  [i \in 1..Len(fresh) |-> RecordOf(fresh[i])]

\* db.commit() of the new records fails on the unique url column.
UrlConflict(listings, newUrls) ==
    \/ \E i, j \in 1..Len(newUrls) : i < j /\ newUrls[i] = newUrls[j]
    \/ \E i \in 1..Len(newUrls) : newUrls[i] \in Stored(listings)

\* new_jobs: for every raw listing, the existing listing or the new record.
CollectedJobs(listings, batch) ==
    [i \in 1..Len(batch) |->
        LET ex == ExistingListing(listings, batch[i]) IN
        IF ex # NULL THEN ex ELSE RecordOf(batch[i])]

\* ------------------------------------------------ add_jobs_to_user_dashboard
\* Faulty variant of AddPlan: a job the scorer filters out gets a row too.
RECURSIVE AddPlanUnfiltered(_, _, _, _, _, _)
AddPlanUnfiltered(jobs, seen, table, user_id, pref, user_cv) ==
    IF jobs = <<>> THEN <<>>
    ELSE LET j == Head(jobs)
             rest == AddPlanUnfiltered(Tail(jobs), seen \cup {j}, table, user_id, pref, user_cv)
         IN  IF j \in seen THEN rest
             ELSE IF FirstRow(table, user_id, j) # NULL THEN rest
             ELSE <<[job_id |-> j, score |-> Score10(score_job(Catalog(j), pref, user_cv))]>>
                    \o rest

\* First loop: the UserJob objects added to the session (not yet flushed).
RECURSIVE AddPlan(_, _, _, _, _, _)
AddPlan(jobs, seen, table, user_id, pref, user_cv) ==
    IF jobs = <<>> THEN <<>>
    ELSE LET j == Head(jobs)
             score == score_job(Catalog(j), pref, user_cv)
             rest == AddPlan(Tail(jobs), seen \cup {j}, table, user_id, pref, user_cv)
         IN  IF j \in seen THEN rest
             ELSE IF FirstRow(table, user_id, j) # NULL THEN rest
             ELSE IF score = NULL THEN rest
             ELSE <<[job_id |-> j, score |-> Score10(score)]>> \o rest

NewRow(score) ==
    [score |-> score, status |-> "new", viewed_at |-> NULL, notified_at |-> NULL]

InsertRow(table, user_id, p) ==
    [table EXCEPT ![<<user_id, p.job_id>>] = Append(@, NewRow(p.score))]

RECURSIVE InsertRows(_, _, _)
InsertRows(table, user_id, pending) ==
    IF pending = <<>> THEN table
    ELSE InsertRows(InsertRow(table, user_id, Head(pending)), user_id, Tail(pending))

\* The flush of the pending rows violates the unique (user_id, job_id) pair.
RowConflict(table, user_id, pending) ==
    /\ UNIQUE_USER_JOB
    /\ \/ \E i \in 1..Len(pending) : table[<<user_id, pending[i].job_id>>] # <<>>
       \/ \E i, j \in 1..Len(pending) : i < j /\ pending[i].job_id = pending[j].job_id

\* Retry loop after an IntegrityError: one commit per job.
RECURSIVE RetryOneByOne(_, _, _, _, _)
RetryOneByOne(jobs, table, user_id, pref, user_cv) ==
    IF jobs = <<>> THEN table
    ELSE LET j == Head(jobs)
             score == score_job(Catalog(j), pref, user_cv)
         IN  IF FirstRow(table, user_id, j) # NULL \/ score = NULL
             THEN RetryOneByOne(Tail(jobs), table, user_id, pref, user_cv)
             ELSE RetryOneByOne(Tail(jobs),
                                InsertRow(table, user_id, [job_id |-> j, score |-> Score10(score)]),
                                user_id, pref, user_cv)

\* Faulty variant of CommitPlan: the commit goes through whatever the table holds.
CommitPlanBlind(pending, jobs, table, user_id, pref, user_cv) ==
    InsertRows(table, user_id, pending)

\* if added > 0: commit, and on IntegrityError roll back and retry one by one.
CommitPlan(pending, jobs, table, user_id, pref, user_cv) ==
    IF pending = <<>> THEN table
    ELSE IF RowConflict(table, user_id, pending)
    THEN RetryOneByOne(jobs, table, user_id, pref, user_cv)
    ELSE InsertRows(table, user_id, pending)

\* Faulty variant of add_jobs_to_user_dashboard: a job that already has a row
\* is scored again and comes back as 'new'.
add_jobs_rescoring(jobs, table, user_id, pref, user_cv) ==
    LET base == CommitPlan(AddPlan(jobs, {}, table, user_id, pref, user_cv),
                           jobs, table, user_id, pref, user_cv)
    IN  [k \in Pairs |->
            IF /\ k[1] = user_id /\ k[2] \in SeqToSet(jobs) /\ table[k] # <<>>
               /\ score_job(Catalog(k[2]), pref, user_cv) # NULL
            THEN <<[table[k][1] EXCEPT
                      !.score = Score10(score_job(Catalog(k[2]), pref, user_cv)),
                      !.status = "new"]>>
            ELSE base[k]]

add_jobs_to_user_dashboard(jobs, table, user_id, pref, user_cv) ==
    CommitPlan(AddPlan(jobs, {}, table, user_id, pref, user_cv),
               jobs, table, user_id, pref, user_cv)

\* Observation: the search collected a job that already has a row of the user.
Rematched(jobs, table, user_id) ==
    \E n \in DOMAIN jobs : table[<<user_id, jobs[n]>>] # <<>>

\* db.commit() of the new records, then the attachment of the collected jobs.
Ingest(newUrls, new_jobs, user_id, pref) ==
    IF UrlConflict(job_listings, newUrls)
    THEN [raised |-> TRUE, listings |-> job_listings, table |-> user_jobs, inserted |-> 0,
          rematched |-> Rematched(new_jobs, user_jobs, user_id)]
    ELSE [raised |-> FALSE, listings |-> job_listings \o newUrls,
          table |-> add_jobs_to_user_dashboard(new_jobs, user_jobs, user_id, pref,
                                               cv_keywords(user_id)),
          inserted |-> Len(newUrls),
          rematched |-> Rematched(new_jobs, user_jobs, user_id)]

\* search_jobs_for_user(force=True) on the listings a batch of provider answers
\* contains: raised, or the tables after ingestion and attachment.
search_jobs_for_user(batch, user_id, pref) ==
    Ingest(NewUrls(job_listings, batch), CollectedJobs(job_listings, batch), user_id, pref)

\* Other spellings of the address of posting k: a trailing slash, a tracking
\* query, a fragment.
WithSlash(k) == RawUrl(k, TRUE, "", "")
WithQuery(k) == RawUrl(k, FALSE, "utm_source=feed", "")
WithFragment(k) == RawUrl(k, FALSE, "", "apply")

\* Provider answers: a prefix of the catalogue, the first posting under another
\* spelling of its address, or one posting twice under two spellings (two
\* providers, or two queries, returning it).
Batches ==
    {[i \in 1..n |-> StoredUrl(i)] : n \in 0..MaxJobs}
        \cup {<<WithFragment(1)>>, <<StoredUrl(1), WithQuery(1)>>}
        \cup {<<StoredUrl(k), WithSlash(k)>> : k \in Urls \ {1}}
\* ---------------------------------------------------- get_top_unnotified_jobs
\* Rows of the user joined with their listing, status 'new', never notified.
Eligible(table, listings, user_id) ==
    UNION {{[user_id |-> k[1], job_id |-> k[2], idx |-> i, score |-> table[k][i].score,
             gone |-> FALSE] :
                i \in {n \in DOMAIN table[k] : /\ table[k][n].status = "new"
                                               /\ table[k][n].notified_at = NULL}} :
           k \in {q \in Pairs : q[1] = user_id /\ q[2] \in Stored(listings)}}

\* Faulty variant of get_top_unnotified_jobs: LIMIT without ORDER BY.
get_top_unordered(table, listings, user_id, limit) ==
    LET el == Eligible(table, listings, user_id)
        n == Min2(limit, Cardinality(el))
    IN  {s \in [1..n -> el] : \A i, j \in 1..n : i < j => s[i] # s[j]}

\* ORDER BY score DESC LIMIT limit: every answer the database may give
\* (rows of equal score come in any order).
get_top_unnotified_jobs(table, listings, user_id, limit) ==
    LET el == Eligible(table, listings, user_id)
        n == Min2(limit, Cardinality(el))
    IN  {s \in [1..n -> el] :
            /\ \A i, j \in 1..n : i < j => s[i] # s[j] /\ s[i].score >= s[j].score
            /\ \A q \in el : (\A i \in 1..n : s[i] # q)
                                => \A i \in 1..n : s[i].score >= q.score}

\* ---------------------------------------------------------- sending one mail
\* Resend first, SMTP only when Resend returned failure.
send_email_notification(resend_ok, smtp_ok) ==
    IF resend_ok THEN TRUE ELSE IF smtp_ok THEN TRUE ELSE FALSE

\* ------------------------------------------------------------ notify_all_users
Frequency(pref) ==
    IF pref = NoPref THEN "every_3_days" ELSE pref.notification_frequency

\* Faulty variant of CooldownSkip: the boundary instant is still skipped.
CooldownSkipInclusive(pref, t) ==
    /\ pref # NoPref
    /\ pref.last_search_at # NULL
    /\ t <= pref.last_search_at + FREQUENCY_MINUTES(Frequency(pref))

\* Faulty variant of CooldownSkip: the gate reads the email timestamp.
CooldownSkipByEmail(pref, t) ==
    /\ pref # NoPref
    /\ pref.last_email_at # NULL
    /\ t < pref.last_email_at + FREQUENCY_MINUTES(Frequency(pref))

\* The cooldown gate: TRUE when the user is skipped at time t.
CooldownSkip(pref, t) ==
    /\ pref # NoPref
    /\ pref.last_search_at # NULL
    /\ t < pref.last_search_at + FREQUENCY_MINUTES(Frequency(pref))

MaxJobsOf(pref) ==
    IF pref = NoPref \/ pref.notification_max_jobs = NULL \/ pref.notification_max_jobs = 0
    THEN DEFAULT_MAX_JOBS ELSE pref.notification_max_jobs

CurrentUser(r) == Head(run[r].todo)

\* Position after the current user has been dealt with.
NextUser(r) ==
    [Idle EXCEPT !.now = run[r].now,
                 !.todo = Tail(run[r].todo),
                 !.pc = IF Tail(run[r].todo) = <<>> THEN "idle" ELSE "gate"]

\* User.notifications_enabled of an existing account.
notifications_enabled(u) == users[u] # NoUser /\ users[u].notifications_enabled

EnabledUsers == SelectSeq([i \in 1..MaxUsers |-> i], notifications_enabled)

\* now = datetime.now(); users = all users with notifications enabled.  The
\* scheduler fires every SCHEDULER_INTERVAL_MINUTES; POST /notify/run at any time.
StartRun(r) ==
    /\ run[r].pc = "idle"
    /\ r = "scheduler" /\ run[r].now # NULL => now >= run[r].now + SCHEDULER_INTERVAL_MINUTES
    /\ runs < MaxRuns
    /\ runs' = runs + 1
    /\ run' = [run EXCEPT ![r] = [Idle EXCEPT !.pc = IF EnabledUsers = <<>> THEN "idle" ELSE "gate",
                                               !.now = now, !.todo = EnabledUsers]]
    /\ event' = [type |-> "start", runner |-> r]
    /\ UNCHANGED <<search_runs, reset_tokens, users, now, requests, prefs, cvs, job_listings, user_jobs, digests, last_pass>>

Gate(r) ==
    LET u == CurrentUser(r)
        skip == CooldownSkip(prefs[u], run[r].now)
    IN
    /\ run[r].pc = "gate"
    /\ run' = [run EXCEPT ![r] = IF skip THEN NextUser(r) ELSE [@ EXCEPT !.pc = "search"]]
    /\ last_pass' = IF skip THEN last_pass ELSE [last_pass EXCEPT ![u] = run[r].now]
    /\ event' = [type |-> "gate", runner |-> r, user |-> u, skipped |-> skip,
                 at |-> run[r].now, previous |-> last_pass[u]]
    /\ UNCHANGED <<search_runs, reset_tokens, users, now, requests, runs, prefs, cvs, job_listings, user_jobs, digests>>

\* The `inserted` most recent listings, newest first.
RecentJobs(listings, n) ==
    [i \in 1..Min2(n, Len(listings)) |-> listings[Len(listings) + 1 - i]]

\* Where the run stands after the refresh block.  The exception of a failed
\* commit is only logged; the session is then either usable again, or every
\* later query of the run raises too (each caught by the per-user handler).
AfterSearch(r, raised, usable) ==
    IF raised /\ ~usable THEN [Idle EXCEPT !.now = run[r].now]
    ELSE [run[r] EXCEPT !.pc = "select"]

\* ------------------------------------------------------------ job_search_runs
\* Both search paths keep the last KEEP_RUNS rows of the user.  No other
\* handler reads the table: it is followed by SearchRecorded and
\* jobs_search_recorded (SpecRuns) and left aside by Search and jobs_search.
KEEP_RUNS == 8

\* The id of the next row (ids grow; they are counted per user here).
NextId(rows) == IF rows = <<>> THEN 1 ELSE rows[Len(rows)].id + 1

NewRun(rows, t) == [id |-> NextId(rows), created_at |-> t]

\* Row i of `rows` comes before row j in ORDER BY created_at DESC [, id DESC].
Before(rows, i, j, by_id) ==
    \/ rows[i].created_at > rows[j].created_at
    \/ by_id /\ rows[i].created_at = rows[j].created_at /\ rows[i].id > rows[j].id

\* .order_by(...).offset(KEEP_RUNS).all(): the sets of rows the query can
\* return; rows that the ordering does not tell apart come in either order.
Stale(rows, by_id) ==
    {S \in SUBSET DOMAIN rows :
        /\ Cardinality(S) = Max2(0, Len(rows) - KEEP_RUNS)
        /\ \A i \in S, j \in DOMAIN rows \ S : ~Before(rows, i, j, by_id)
        /\ by_id => \A i \in S, j \in DOMAIN rows \ S : Before(rows, j, i, by_id)}

\* The rows left once those of S are deleted.
Without(rows, S) == SelectSeq([i \in DOMAIN rows |-> [row |-> rows[i], at |-> i]],
                             LAMBDA x : x.at \notin S)

Rows(indexed) == [i \in DOMAIN indexed |-> indexed[i].row]

\* notify_all_users: db.add(run_entry), the query for the stale rows, their
\* deletion, db.commit().  The session does not autoflush: the query sees the
\* new row only when a commit came in between (`flushed`).
RecordRun(rows, t, flushed) ==
    IF flushed
    THEN {Rows(Without(Append(rows, NewRun(rows, t)), S)) :
            S \in Stale(Append(rows, NewRun(rows, t)), FALSE)}
    ELSE {Append(Rows(Without(rows, S)), NewRun(rows, t)) : S \in Stale(rows, FALSE)}

\* POST /jobs/search: db.add(run_entry), db.commit(), then the stale rows by
\* created_at and id.
RecordSearch(rows, t) ==
    Rows(Without(Append(rows, NewRun(rows, t)),
                 CHOOSE S \in Stale(Append(rows, NewRun(rows, t)), TRUE) : TRUE))

\* refresh=True: search, attach the inserted listings, advance last_search_at.
Refresh(r, usable, u, pref, res) ==
    /\ IF res.raised
       THEN /\ prefs' = [prefs EXCEPT ![u] = pref]
            /\ UNCHANGED <<search_runs, reset_tokens, job_listings, user_jobs>>
       ELSE /\ prefs' = [prefs EXCEPT ![u] = [pref EXCEPT !.last_search_at = run[r].now]]
            /\ job_listings' = res.listings
            /\ user_jobs' = add_jobs_to_user_dashboard(RecentJobs(res.listings, res.inserted),
                                res.table, u, pref, cv_keywords(u))
    /\ run' = [run EXCEPT ![r] = AfterSearch(r, res.raised, usable)]
    /\ event' = [type |-> "search", runner |-> r, user |-> u, raised |-> res.raised,
                 rematched |-> res.rematched]
    /\ UNCHANGED <<reset_tokens, users, now, requests, runs, cvs, digests, last_pass>>

\* The same with the JobSearchRun row of the search and the deletion of the
\* stale rows; nothing is recorded when the search raised.
RefreshRecorded(r, usable, u, pref, res) ==
    /\ Refresh(r, usable, u, pref, res)
    /\ IF res.raised
       THEN UNCHANGED search_runs
       ELSE \E kept \in RecordRun(search_runs[u], run[r].now,
                                   res.inserted > 0 /\ user_jobs' # res.table) :
               search_runs' = [search_runs EXCEPT ![u] = kept]

\* The search step of the run for its current user (job_search_runs left aside).
Search(r, batch, usable) ==
    /\ run[r].pc = "search"
    /\ Refresh(r, usable, CurrentUser(r), get_or_create_pref(CurrentUser(r)),
               search_jobs_for_user(batch, CurrentUser(r), get_or_create_pref(CurrentUser(r))))
    /\ UNCHANGED search_runs

\* The search step of the run with its JobSearchRun row.
SearchRecorded(r, batch, usable) ==
    /\ run[r].pc = "search"
    /\ RefreshRecorded(r, usable, CurrentUser(r), get_or_create_pref(CurrentUser(r)),
               search_jobs_for_user(batch, CurrentUser(r), get_or_create_pref(CurrentUser(r))))

Select(r) ==
    LET u == CurrentUser(r) IN
    /\ run[r].pc = "select"
    /\ \E top \in get_top_unnotified_jobs(user_jobs, job_listings, u, MaxJobsOf(prefs[u])) :
          /\ run' = [run EXCEPT ![r].pc = "send", ![r].top_jobs = top]
          /\ event' = [type |-> "select", runner |-> r, user |-> u, top |-> top,
                       limit |-> MaxJobsOf(prefs[u])]
    /\ UNCHANGED <<search_runs, reset_tokens, users, now, requests, runs, prefs, cvs, job_listings, user_jobs, digests, last_pass>>

\* user_job.notified_at = now for the selected rows.
StampRows(table, user_id, top, t) ==
    [k \in Pairs |->
        [i \in 1..Len(table[k]) |->
            IF k[1] = user_id /\ \E n \in 1..Len(top) : top[n].job_id = k[2] /\ top[n].idx = i
            THEN [table[k][i] EXCEPT !.notified_at = t]
            ELSE table[k][i]]]

DIGEST_COUNT_CAP == 2

\* Faulty variant of Called: the empty digest is sent whatever the preference.
CalledAlways(top, pref) == TRUE

\* send_email_notification is called for a non-empty selection, and for an
\* empty one when the user wants empty digests.
Called(top, pref) == top # <<>> \/ pref = NoPref \/ pref.send_empty_digest

\* Faulty variant of StampSelected: the rows are stamped whatever the send returned.
StampRegardless(top, email_sent) == top # <<>>

\* if success: user_job.notified_at = now for the selected rows.
StampSelected(top, email_sent) == top # <<>> /\ email_sent

\* if pref and email_sent: pref.last_email_at = now.
AdvanceLastEmail(pref, email_sent) == pref # NoPref /\ email_sent

\* secrets.token_urlsafe(32): 256 random bits, taken to differ from one user to
\* the next; the token drawn for user u is written u.
NewToken(u) == u

\* get_or_create_unsubscribe_token: the stored token, or a new one, committed.
get_or_create_unsubscribe_token(table, u) ==
    IF table[u] = NoUser \/ table[u].unsubscribe_token # <<>> THEN table
    ELSE [table EXCEPT ![u].unsubscribe_token = <<NewToken(u)>>]

\* Build and send the digest (or the empty digest), stamp on success.
Send(r, resend_ok, smtp_ok) ==
    LET u == CurrentUser(r)
        top == run[r].top_jobs
        jobs == {top[i].job_id : i \in 1..Len(top)}
        called == Called(top, prefs[u])
        email_sent == called /\ send_email_notification(resend_ok, smtp_ok)
        \* the UPDATE of a row that was deleted meanwhile raises and is caught per user
        stale == /\ StampSelected(top, email_sent)
                 /\ \E i \in 1..Len(top) : top[i].gone
    IN
    /\ run[r].pc = "send"
    /\ users' = get_or_create_unsubscribe_token(users, u)
    /\ user_jobs' = IF StampSelected(top, email_sent) /\ ~stale
                    THEN StampRows(user_jobs, u, top, run[r].now) ELSE user_jobs
    /\ prefs' = IF AdvanceLastEmail(prefs[u], email_sent) /\ ~stale
                THEN [prefs EXCEPT ![u].last_email_at = run[r].now] ELSE prefs
    /\ digests' = IF top # <<>> /\ email_sent
                  THEN [k \in Pairs |->
                          IF k[1] = u /\ k[2] \in jobs
                          THEN Min2(DIGEST_COUNT_CAP, digests[k] + 1) ELSE digests[k]]
                  ELSE digests
    /\ run' = [run EXCEPT ![r] = NextUser(r)]
    /\ event' = [type |-> "send", runner |-> r, user |-> u,
                 kind |-> IF top # <<>> THEN "jobs" ELSE "empty",
                 calls |-> IF called THEN 1 ELSE 0,
                 sent |-> email_sent, top |-> top, raised |-> stale]
    /\ UNCHANGED <<search_runs, reset_tokens, now, requests, runs, cvs, job_listings, last_pass>>

\* -------------------------------------------------- POST /jobs/search (on demand)
\* The tables after the handler's search_jobs_for_user call returned res.
SearchResponse(u, res) ==
    /\ prefs' = [prefs EXCEPT ![u] = get_or_create_pref(u)]
    /\ job_listings' = res.listings
    /\ user_jobs' = res.table
    /\ event' = NoEvent
    /\ UNCHANGED <<reset_tokens, users, now, runs, cvs, run, digests, last_pass>>

\* POST /jobs/search for user u, the providers answering batch.
jobs_search(u, batch) ==
    /\ SearchResponse(u, search_jobs_for_user(batch, u, get_or_create_pref(u)))
    /\ UNCHANGED search_runs

\* POST /jobs/search with its JobSearchRun row.
jobs_search_recorded(u, batch) ==
    /\ SearchResponse(u, search_jobs_for_user(batch, u, get_or_create_pref(u)))
    /\ search_runs' = [search_runs EXCEPT ![u] = RecordSearch(@, now)]

\* ------------------------------------------------------------ PUT /preferences
\* Deletes the user's ledger rows, then the listings no row references any more.
clear_user_job_data(table, listings, user_id) ==
    LET user_job_ids == {j \in Urls : table[<<user_id, j>>] # <<>>}
        kept == [k \in Pairs |-> IF k[1] = user_id THEN <<>> ELSE table[k]]
        Keep(j) == ~(j \in user_job_ids /\ \A v \in Users : kept[<<v, j>>] = <<>>)
    IN  [table |-> kept, listings |-> SelectSeq(listings, Keep)]

\* The rows a run has loaded and that the delete removed: its UPDATE of such
\* a row matches nothing.
Forget(rs, user_id) ==
    [r \in Runners |->
        [rs[r] EXCEPT !.top_jobs =
            [i \in DOMAIN rs[r].top_jobs |->
                IF rs[r].top_jobs[i].user_id = user_id
                THEN [rs[r].top_jobs[i] EXCEPT !.gone = TRUE]
                ELSE rs[r].top_jobs[i]]]]

\* Only the fields the payload provides (non null) are written.
ApplyPayload(pref, payload) ==
    [pref EXCEPT !.role = payload.role,
                 !.location = payload.location,
                 !.contract_type = payload.contract_type,
                 !.salary_min = IF payload.salary_min = NULL THEN @ ELSE payload.salary_min,
                 !.must_keywords = payload.must_keywords,
                 !.avoid_keywords = payload.avoid_keywords]

upsert_preferences(u, payload) ==
    LET pref == get_or_create_pref(u)
        updated == ApplyPayload(pref, payload)
        search_changed == updated # pref
        cleared == clear_user_job_data(user_jobs, job_listings, u)
    IN
    /\ prefs' = [prefs EXCEPT ![u] = updated]
    /\ user_jobs' = IF search_changed THEN cleared.table ELSE user_jobs
    /\ job_listings' = IF search_changed THEN cleared.listings ELSE job_listings
    /\ run' = IF search_changed THEN Forget(run, u) ELSE run
    /\ event' = NoEvent
    /\ UNCHANGED <<search_runs, reset_tokens, users, now, runs, cvs, digests, last_pass>>

\* ------------------------------------------------------------ POST /cv/upload
\* Deletes every ledger row and every listing, for all users.
clear_all_jobs(table, listings) ==
    [table |-> [k \in Pairs |-> <<>>], listings |-> <<>>]

\* The rows the runs have loaded are all gone.
ForgetAll(rs) ==
    [r \in Runners |->
        [rs[r] EXCEPT !.top_jobs =
            [i \in DOMAIN rs[r].top_jobs |-> [rs[r].top_jobs[i] EXCEPT !.gone = TRUE]]]]

upload_cv(u, extracted) ==
    LET cleared == clear_all_jobs(user_jobs, job_listings) IN
    /\ cvs' = [cvs EXCEPT ![u] = <<[text |-> extracted]>>]
    /\ user_jobs' = cleared.table
    /\ job_listings' = cleared.listings
    /\ run' = ForgetAll(run)
    /\ event' = NoEvent
    /\ UNCHANGED <<search_runs, reset_tokens, users, now, runs, prefs, digests, last_pass>>

\* ------------------------------------------------------- PUT /profile, login
PASSWORD_MIN == 8
PASSWORD_MAX == 128

weak_passwords ==
    {"password", "password1", "password12", "password123", "password1234",
     "12345678", "123456789", "1234567890", "qwerty123", "azerty123",
     "motdepasse", "admin123", "user1234", "welcome1", "letmein1"}

\* _sanitize_password: the stripped password, or the 400 it raises.
sanitize_password(pwd) ==
    IF Len(str_strip(pwd)) < PASSWORD_MIN THEN [ok |-> FALSE, cleaned |-> ""]
    ELSE IF Len(str_strip(pwd)) > PASSWORD_MAX THEN [ok |-> FALSE, cleaned |-> ""]
    ELSE IF str_lower(str_strip(pwd)) \in weak_passwords THEN [ok |-> FALSE, cleaned |-> ""]
    ELSE [ok |-> TRUE, cleaned |-> str_strip(pwd)]

\* ProfileUpdate: new_password has min_length 8 and no max_length.  An absent
\* field is "" (the handler tests the fields by truth value), an
\* absent notifications_enabled is <<>>.
ProfileUpdateValid(payload) ==
    payload.new_password = "" \/ Len(payload.new_password) >= PASSWORD_MIN

\* LoginIn: password of 1 to 128 characters.
LoginInValid(password) == Len(password) >= 1 /\ Len(password) <= PASSWORD_MAX

EmailTaken(table, email) == \E v \in Users : table[v] # NoUser /\ table[v].email = email

\* The response status of PUT /profile for the account `user`.
ProfileStatus(table, user, payload) ==
    IF ~ProfileUpdateValid(payload) THEN 422
    ELSE IF payload.email # "" /\ payload.email # user.email /\ EmailTaken(table, payload.email)
         THEN 400
    ELSE IF payload.new_password = "" THEN 200
    ELSE IF payload.current_password = "" THEN 400
    ELSE IF ~verify_password(payload.current_password, user.password_hash) THEN 400
    ELSE IF ~sanitize_password(payload.new_password).ok THEN 400
    ELSE 200

\* The fields the handler assigns before its commit.
ProfileWrites(user, payload) ==
    [email |-> IF payload.email # "" THEN payload.email ELSE user.email,
     email_verified |->
        IF payload.email # "" /\ payload.email # user.email THEN FALSE ELSE user.email_verified,
     password_hash |->
        IF payload.new_password # ""
        THEN hash_password(sanitize_password(payload.new_password).cleaned)
        ELSE user.password_hash,
     notifications_enabled |->
        IF payload.notifications_enabled # <<>> THEN payload.notifications_enabled[1]
        ELSE user.notifications_enabled,
     unsubscribe_token |-> user.unsubscribe_token]

ProfileFrame ==
    UNCHANGED <<search_runs, reset_tokens, now, runs, prefs, cvs, job_listings, user_jobs, run, digests, last_pass>>

\* PUT /profile: an HTTPException leaves the session uncommitted.
update_profile(u, payload) ==
    /\ users[u] # NoUser
    /\ users' = IF ProfileStatus(users, users[u], payload) = 200
                THEN [users EXCEPT ![u] = ProfileWrites(users[u], payload)]
                ELSE users
    /\ event' = [type |-> "profile", user |-> u, payload |-> payload,
                 status |-> ProfileStatus(users, users[u], payload)]
    /\ ProfileFrame

\* The response status of POST /auth/login.
login_status(table, email, password) ==
    IF ~LoginInValid(password) THEN 422
    ELSE IF ~EmailTaken(table, email) THEN 401
    ELSE IF ~sanitize_password(password).ok THEN 401
    ELSE IF \E v \in Users :
               /\ table[v] # NoUser
               /\ table[v].email = email
               /\ verify_password(sanitize_password(password).cleaned, table[v].password_hash)
         THEN 200
    ELSE 401

\* POST /auth/login
login(email, password) ==
    /\ event' = [type |-> "login", email |-> email, password |-> password,
                 status |-> login_status(users, email, password)]
    /\ UNCHANGED users
    /\ ProfileFrame

\* RegisterIn: password of 8 to 128 characters.
RegisterInValid(password) == Len(password) >= PASSWORD_MIN /\ Len(password) <= PASSWORD_MAX

\* Faulty variant of RegisterStatus: no lookup of the email.
RegisterStatusUnchecked(table, email, password) ==
    IF ~RegisterInValid(password) THEN 422
    ELSE IF ~sanitize_password(password).ok THEN 400
    ELSE 200

\* The response status of POST /auth/register.
RegisterStatus(table, email, password) ==
    IF ~RegisterInValid(password) THEN 422
    ELSE IF EmailTaken(table, email) THEN 400
    ELSE IF ~sanitize_password(password).ok THEN 400
    ELSE 200

\* The row register adds (email_verified takes the column default).
NewUser(email, password) ==
    [email |-> email, password_hash |-> hash_password(sanitize_password(password).cleaned),
     notifications_enabled |-> TRUE, email_verified |-> FALSE, unsubscribe_token |-> <<>>]

\* POST /auth/register: the new account takes the free id u.
register(u, email, password) ==
    /\ users[u] = NoUser
    /\ users' = IF RegisterStatus(users, email, password) = 200
                THEN [users EXCEPT ![u] = NewUser(email, password)]
                ELSE users
    /\ event' = [type |-> "register", user |-> u, email |-> email, password |-> password,
                 status |-> RegisterStatus(users, email, password)]
    /\ ProfileFrame

\* ------------------------------------------------------------- specifications
Request(limit) ==
    /\ requests < limit
    /\ requests' = requests + 1
    /\ \E u \in {v \in Users : users[v] # NoUser} :
        \/ \E j \in Urls :
              \/ delete_match(u, j)
              \/ mark_visit(u, j, FALSE, TRUE)
              \/ \E alive \in BOOLEAN : mark_visit(u, j, TRUE, alive)
              \/ \E st \in Statuses : update_job_status(u, j, st)
              \/ save_job(u, j)
              \/ unsave_job(u, j)
        \/ \E batch \in Batches : jobs_search(u, batch)
        \/ \E payload \in SearchProfiles : upsert_preferences(u, payload)
        \/ upload_cv(u, <<SampleCv>>)

UserRequest == Request(MaxRequests)

RunStep(r) ==
    \/ Gate(r)
    \/ \E batch \in Batches, usable \in BOOLEAN : Search(r, batch, usable)
    \/ Select(r)
    \/ \E resend_ok, smtp_ok \in BOOLEAN : Send(r, resend_ok, smtp_ok)

NoRunActive == \A r \in Runners : run[r].pc = "idle"

\* Scheduler ticks (refresh_jobs_task, max_instances=1) with the requests of
\* the users served between two runs.
Next ==
    \/ NoRunActive /\ Tick
    \/ NoRunActive /\ UserRequest
    \/ NoRunActive /\ StartRun("scheduler")
    \/ RunStep("scheduler")

Spec == Init /\ [][Next]_vars
\* ---------------------------------------------- overlapping notification runs
\* The search of a run in three steps, as two sessions interleave: SearchLookup
\* is the provider loop (lookups, new records added to the session), SearchPlan
\* is the commit of the new listings and the first loop of
\* add_jobs_to_user_dashboard (existence checks, rows added to the session),
\* SearchCommit is the commit of those rows and the rest of the refresh block.
SearchLookup(r, batch) ==
    LET u == CurrentUser(r) IN
    /\ run[r].pc = "search"
    /\ prefs' = [prefs EXCEPT ![u] = get_or_create_pref(u)]
    /\ run' = [run EXCEPT ![r] = [@ EXCEPT !.pc = "ingest",
                                           !.records = NewUrls(job_listings, batch),
                                           !.jobs = CollectedJobs(job_listings, batch)]]
    /\ event' = [type |-> "lookup", runner |-> r, user |-> u]
    /\ UNCHANGED <<search_runs, reset_tokens, users, now, requests, runs, cvs, job_listings, user_jobs, digests, last_pass>>

SearchPlan(r, usable) ==
    LET u == CurrentUser(r)
        pref == get_or_create_pref(u)
        newUrls == run[r].records
        new_jobs == run[r].jobs
        raised == UrlConflict(job_listings, newUrls)
    IN
    /\ run[r].pc = "ingest"
    /\ job_listings' = IF raised THEN job_listings ELSE job_listings \o newUrls
    /\ run' = [run EXCEPT ![r] =
                 IF raised THEN [AfterSearch(r, raised, usable) EXCEPT
                                    !.records = <<>>, !.jobs = <<>>]
                 ELSE [@ EXCEPT !.pc = "commit", !.records = <<>>,
                                !.inserted = Len(newUrls),
                                !.pending = AddPlan(new_jobs, {}, user_jobs, u, pref,
                                                    cv_keywords(u))]]
    /\ event' = [type |-> "search", runner |-> r, user |-> u, raised |-> raised,
                 rematched |-> Rematched(new_jobs, user_jobs, u)]
    /\ UNCHANGED <<search_runs, reset_tokens, users, now, requests, runs, prefs, cvs, user_jobs, digests, last_pass>>

SearchCommit(r) ==
    LET u == CurrentUser(r)
        pref == get_or_create_pref(u)
        table1 == CommitPlan(run[r].pending, run[r].jobs, user_jobs, u, pref, cv_keywords(u))
    IN
    /\ run[r].pc = "commit"
    /\ user_jobs' = add_jobs_to_user_dashboard(RecentJobs(job_listings, run[r].inserted),
                        table1, u, pref, cv_keywords(u))
    /\ prefs' = [prefs EXCEPT ![u] = [pref EXCEPT !.last_search_at = run[r].now]]
    /\ run' = [run EXCEPT ![r] = [@ EXCEPT !.pc = "select", !.jobs = <<>>,
                                            !.pending = <<>>, !.inserted = 0]]
    /\ event' = [type |-> "commit", runner |-> r, user |-> u,
                 conflict |-> RowConflict(user_jobs, u, run[r].pending)]
    /\ UNCHANGED <<search_runs, reset_tokens, users, now, requests, runs, cvs, job_listings, digests, last_pass>>

ConcStep(r) ==
    \/ StartRun(r)
    \/ Gate(r)
    \/ \E batch \in Batches : SearchLookup(r, batch)
    \/ \E usable \in BOOLEAN : SearchPlan(r, usable)
    \/ SearchCommit(r)
    \/ Select(r)
    \/ \E resend_ok, smtp_ok \in BOOLEAN : Send(r, resend_ok, smtp_ok)

\* The scheduler tick and POST /notify/run (admin) running at the same time,
\* with the users' requests served meanwhile.
NextConc ==
    \/ ConcStep("scheduler")
    \/ ConcStep("admin")
    \/ Request(MaxConcRequests)

SpecConc == Init /\ [][NextConc]_vars

\* ------------------------------------------- a tick with every account enabled
InitEveryone == Start(Users)

NextEveryone ==
    \/ NoRunActive /\ Tick
    \/ NoRunActive /\ StartRun("scheduler")
    \/ RunStep("scheduler")

SpecEveryone == InitEveryone /\ [][NextEveryone]_vars
\* -------------------------------------------------- functions called alone
\* The tables at rest, for the specifications that apply one function to
\* inputs drawn by their initial predicate.
Quiet ==
    /\ now = 0
    /\ requests = 0
    /\ users = Registered(FirstOnly)
    /\ runs = 0
    /\ prefs = [u \in Users |-> NoPref]
    /\ user_jobs = [k \in Pairs |-> <<>>]
    /\ run = [r \in Runners |-> Idle]
    /\ digests = [k \in Pairs |-> 0]
    /\ last_pass = [u \in Users |-> NULL]
    /\ search_runs = [u \in Users |-> <<>>]
    /\ reset_tokens = <<>>

AtRest == Quiet /\ cvs = [u \in Users |-> <<>>]

CallFrame ==
    UNCHANGED <<search_runs, reset_tokens, users, now, requests, runs, prefs, cvs, job_listings, user_jobs, run, digests, last_pass>>

\* ---------------------------------------------------------- is_job_url_alive
\* What urlopen can do with one request: answer (2xx, or a redirect followed to
\* one), raise HTTPError with a status, or raise something else (socket
\* timeout, URLError of a refused connection or a failed name lookup).
HttpErrorCodes == {400, 401, 403, 404, 405, 410, 429, 500, 503}

UrlopenOutcomes ==
    {[kind |-> "ok", code |-> 200]}
        \cup {[kind |-> "HTTPError", code |-> c] : c \in HttpErrorCodes}
        \cup {[kind |-> k, code |-> 0] : k \in {"timeout", "URLError"}}

\* head: the outcome of the HEAD request; get: the outcome the GET with
\* Range: bytes=0-0 has if it is sent.
is_job_url_alive(head, get) ==
    CASE head.kind = "ok" -> TRUE
      [] head.kind = "HTTPError" ->
            IF head.code \in {404, 410} THEN FALSE
            ELSE IF head.code \in {405, 403}
                 THEN CASE get.kind = "ok" -> TRUE
                        [] get.kind = "HTTPError" -> get.code \notin {404, 410}
                        [] OTHER -> FALSE
                 ELSE TRUE
      [] OTHER -> FALSE

InitProbe ==
    /\ AtRest
    /\ job_listings = <<>>
    /\ \E head, get \in UrlopenOutcomes :
          event = [type |-> "call", fn |-> "is_job_url_alive", head |-> head, get |-> get]

Probe ==
    /\ event.type = "call"
    /\ event.fn = "is_job_url_alive"
    /\ event' = [type |-> "return", fn |-> event.fn, head |-> event.head, get |-> event.get,
                 result |-> is_job_url_alive(event.head, event.get)]
    /\ CallFrame

SpecProbe == InitProbe /\ [][Probe]_vars

\* ---------------------------------------------------------- find_duplicate_job
\* Stored tables: up to two postings of the catalogue in any order, and one
\* company with more postings than the candidate query returns.
DedupPostings == VariantPostings \cup {1}

ManyOfOneCompany == [i \in 1..CANDIDATE_LIMIT |-> 99 + i]

DedupTables ==
    {<<>>} \cup {<<a>> : a \in DedupPostings}
        \cup {p \in DedupPostings \X DedupPostings : p[1] # p[2]}
        \cup {ManyOfOneCompany \o <<a>> : a \in DedupPostings}
        \cup {<<a>> \o ManyOfOneCompany : a \in DedupPostings}

\* A posting whose URL is not stored arrives: its title and company.
InitDedup ==
    /\ AtRest
    /\ job_listings \in DedupTables
    /\ \E k \in DedupPostings \ Stored(job_listings) :
          event = [type |-> "call", fn |-> "find_duplicate_job",
                   title |-> Catalog(k).title, company |-> Catalog(k).company]

Dedup ==
    /\ event.type = "call"
    /\ event.fn = "find_duplicate_job"
    /\ \E window \in CandidateWindows(job_listings, normalize_text(event.company)) :
          event' = [type |-> "return", fn |-> event.fn, title |-> event.title,
                    company |-> event.company,
                    result |-> find_duplicate_job(window, event.title, event.company)]
    /\ CallFrame

SpecDedup == InitDedup /\ [][Dedup]_vars

\* ------------------------------------------------------- score_job, called alone
AvoidInputs == {"", "stage", "Stage , SQL", "développeur", "developpeur", "ACME"}
SalaryFloors == {NULL, 0, 45000}

FilterPrefs ==
    {[DefaultPref EXCEPT !.avoid_keywords = a, !.salary_min = f] :
        a \in AvoidInputs, f \in SalaryFloors}

FilterPostings == VariantPostings \cup {1, 2}

InitFilter ==
    /\ AtRest
    /\ job_listings = <<>>
    /\ \E k \in FilterPostings, pref \in FilterPrefs :
          event = [type |-> "call", fn |-> "score_job", job |-> k, pref |-> pref]

Filter ==
    /\ event.type = "call"
    /\ event.fn = "score_job"
    /\ event' = [type |-> "return", fn |-> event.fn, job |-> event.job, pref |-> event.pref,
                 result |-> score_job(Catalog(event.job), event.pref, KeywordTable[SampleCv])]
    /\ CallFrame

SpecFilter == InitFilter /\ [][Filter]_vars

\* ------------------------------- score_job and _extract_match_reasons together
MatchPrefs ==
    {DefaultPref,
     [DefaultPref EXCEPT !.role = " Data Analyst ", !.location = "Paris, Lyon",
                         !.must_keywords = "SQL, Python", !.contract_type = "CDI"],
     [DefaultPref EXCEPT !.role = "Senior Analyst", !.must_keywords = "sql,java,go,rust",
                         !.contract_type = "Freelance"],
     [DefaultPref EXCEPT !.role = "Plombier", !.location = "Nantes, Télétravail",
                         !.must_keywords = "Kubernetes"],
     [DefaultPref EXCEPT !.location = "Marseille", !.must_keywords = "sql, sql, java",
                         !.salary_min = 45000],
     [DefaultPref EXCEPT !.role = "Dev", !.avoid_keywords = "stage"]}

InitMatch ==
    /\ AtRest
    /\ job_listings = <<>>
    /\ \E k \in ScoredPostings, pref \in MatchPrefs, cv \in CvTexts :
          event = [type |-> "call", fn |-> "match", job |-> k, pref |-> pref, cv |-> cv]

\* The score of one job for one user, its stored form, and the reasons shown.
Match ==
    /\ event.type = "call"
    /\ event.fn = "match"
    /\ event' = [type |-> "return", fn |-> event.fn, job |-> event.job, pref |-> event.pref,
                 cv |-> event.cv,
                 result |-> score_job(Catalog(event.job), event.pref, KeywordTable[event.cv]),
                 reasons |-> extract_match_reasons(Catalog(event.job), event.pref,
                                                   KeywordTable[event.cv], 4)]
    /\ CallFrame

SpecMatch == InitMatch /\ [][Match]_vars

\* ------------------------------------------------------------------ cv_keywords
\* The CV rows a user can have, the most recent first: none, one, or two; the
\* text column of a row is null or any of the texts.
CvRows == {[text |-> <<>>]} \cup {[text |-> <<t>>] : t \in CvTexts}

CvHistories == {<<>>} \cup {<<a>> : a \in CvRows} \cup (CvRows \X CvRows)

InitCv ==
    /\ Quiet
    /\ job_listings = <<>>
    /\ \E rows \in CvHistories : cvs = [u \in Users |-> IF u = 1 THEN rows ELSE <<>>]
    /\ event = [type |-> "call", fn |-> "cv_keywords", user |-> 1]

CvKeywords ==
    /\ event.type = "call"
    /\ event.fn = "cv_keywords"
    /\ event' = [type |-> "return", fn |-> event.fn, user |-> event.user,
                 result |-> cv_keywords(event.user)]
    /\ CallFrame

SpecCv == InitCv /\ [][CvKeywords]_vars

\* -------------------------------------------------------- send_email_via_resend
max_retries == 3

Attempts == [1..max_retries -> UrlopenOutcomes]

\* The loop from attempt `attempt` (counted from 0) on: outcomes[i] is what the
\* i-th urlopen does if it is made, sleeps the backoff delays slept so far.
RECURSIVE resend_retry_all(_, _, _)
resend_retry_all(outcomes, attempt, sleeps) ==
    IF attempt >= max_retries
    THEN [result |-> FALSE, attempts |-> attempt, sleeps |-> sleeps]
    ELSE IF outcomes[attempt + 1].kind = "ok"
    THEN [result |-> TRUE, attempts |-> attempt + 1, sleeps |-> sleeps]
    ELSE resend_retry_all(outcomes, attempt + 1,
                          IF attempt < max_retries - 1 THEN Append(sleeps, 2 ^ attempt) ELSE sleeps)

RECURSIVE resend_loop(_, _, _)
resend_loop(outcomes, attempt, sleeps) ==
    IF attempt >= max_retries
    THEN [result |-> FALSE, attempts |-> attempt, sleeps |-> sleeps]
    ELSE IF outcomes[attempt + 1].kind = "ok"
    THEN [result |-> TRUE, attempts |-> attempt + 1, sleeps |-> sleeps]
    ELSE IF /\ outcomes[attempt + 1].kind = "HTTPError"
            /\ 400 <= outcomes[attempt + 1].code
            /\ outcomes[attempt + 1].code < 500
            /\ outcomes[attempt + 1].code # 429
    THEN [result |-> FALSE, attempts |-> attempt + 1, sleeps |-> sleeps]
    ELSE resend_loop(outcomes, attempt + 1,
                     IF attempt < max_retries - 1 THEN Append(sleeps, 2 ^ attempt) ELSE sleeps)

\* configured: RESEND_API_KEY, RESEND_FROM and the recipient are all set.
send_email_via_resend(configured, outcomes) ==
    IF ~configured THEN [result |-> FALSE, attempts |-> 0, sleeps |-> <<>>]
    ELSE resend_loop(outcomes, 0, <<>>)

InitResend ==
    /\ AtRest
    /\ job_listings = <<>>
    /\ \E configured \in BOOLEAN, outcomes \in Attempts :
          event = [type |-> "call", fn |-> "send_email_via_resend",
                   configured |-> configured, outcomes |-> outcomes]

Resend ==
    /\ event.type = "call"
    /\ event.fn = "send_email_via_resend"
    /\ event' = [type |-> "return", fn |-> event.fn, configured |-> event.configured,
                 outcomes |-> event.outcomes,
                 sent |-> send_email_via_resend(event.configured, event.outcomes)]
    /\ CallFrame

SpecResend == InitResend /\ [][Resend]_vars

\* ---------------------------------------------------------- send_email_via_smtp
\* What one connect, login and send_message can do: succeed, or raise one of
\* smtplib's exceptions or a socket error.
SmtpRejections == {"SMTPAuthenticationError", "SMTPRecipientsRefused", "SMTPSenderRefused"}

SmtpOutcomes ==
    {"ok", "SMTPServerDisconnected", "SMTPDataError", "timeout"} \cup SmtpRejections

SmtpAttempts == [1..max_retries -> SmtpOutcomes]

RECURSIVE smtp_loop(_, _, _)
smtp_loop(outcomes, attempt, sleeps) ==
    IF attempt >= max_retries
    THEN [result |-> FALSE, attempts |-> attempt, sleeps |-> sleeps]
    ELSE IF outcomes[attempt + 1] = "ok"
    THEN [result |-> TRUE, attempts |-> attempt + 1, sleeps |-> sleeps]
    ELSE IF outcomes[attempt + 1] = "SMTPAuthenticationError"
    THEN [result |-> FALSE, attempts |-> attempt + 1, sleeps |-> sleeps]
    ELSE smtp_loop(outcomes, attempt + 1,
                   IF attempt < max_retries - 1 THEN Append(sleeps, 2 ^ attempt) ELSE sleeps)

\* configured: SMTP_HOST, SMTP_USER, SMTP_PASS and the recipient are set and
\* SMTP_PORT is a number.
send_email_via_smtp(configured, outcomes) ==
    IF ~configured THEN [result |-> FALSE, attempts |-> 0, sleeps |-> <<>>]
    ELSE smtp_loop(outcomes, 0, <<>>)

InitSmtp ==
    /\ AtRest
    /\ job_listings = <<>>
    /\ \E configured \in BOOLEAN, outcomes \in SmtpAttempts :
          event = [type |-> "call", fn |-> "send_email_via_smtp",
                   configured |-> configured, outcomes |-> outcomes]

Smtp ==
    /\ event.type = "call"
    /\ event.fn = "send_email_via_smtp"
    /\ event' = [type |-> "return", fn |-> event.fn, configured |-> event.configured,
                 outcomes |-> event.outcomes,
                 sent |-> send_email_via_smtp(event.configured, event.outcomes)]
    /\ CallFrame

SpecSmtp == InitSmtp /\ [][Smtp]_vars

\* ------------------------------------------------- the two transports in turn
NotCalled == [result |-> FALSE, attempts |-> 0, sleeps |-> <<>>]

\* Faulty variant of Transports: the SMTP transport is tried in any case.
TransportsBoth(primary, secondary) ==
    [result |-> send_email_notification(primary.result, secondary.result),
     resend |-> primary, smtp_called |-> TRUE, smtp |-> secondary]

\* send_email_notification: primary is what send_email_via_resend did,
\* secondary what send_email_via_smtp does if it is called.
Transports(primary, secondary) ==
    IF primary.result
    THEN [result |-> TRUE, resend |-> primary, smtp_called |-> FALSE, smtp |-> NotCalled]
    ELSE [result |-> send_email_notification(primary.result, secondary.result),
          resend |-> primary, smtp_called |-> TRUE, smtp |-> secondary]

\* The attempts of one call: each transport answers, refuses for good, asks
\* to come back later, or does not answer.
ResendSamples ==
    [1..max_retries -> {o \in UrlopenOutcomes :
                           o.kind \in {"ok", "timeout"} \/ o.code \in {400, 429}}]

SmtpSamples ==
    [1..max_retries -> {"ok", "SMTPAuthenticationError", "SMTPRecipientsRefused", "timeout"}]

InitTransports ==
    /\ AtRest
    /\ job_listings = <<>>
    /\ \E resend_configured, smtp_configured \in BOOLEAN,
          resend \in ResendSamples, smtp \in SmtpSamples :
          event = [type |-> "call", fn |-> "send_email_notification",
                   resend_configured |-> resend_configured, resend |-> resend,
                   smtp_configured |-> smtp_configured, smtp |-> smtp]

Notify ==
    /\ event.type = "call"
    /\ event.fn = "send_email_notification"
    /\ event' = [type |-> "return", fn |-> event.fn,
                 resend_configured |-> event.resend_configured, resend |-> event.resend,
                 smtp_configured |-> event.smtp_configured, smtp |-> event.smtp,
                 sent |-> Transports(send_email_via_resend(event.resend_configured, event.resend),
                                     send_email_via_smtp(event.smtp_configured, event.smtp))]
    /\ CallFrame

SpecTransports == InitTransports /\ [][Notify]_vars

\* ------------------------------------------------- password changes and logins
NewPassword == "NewSecurePassword123!"
WrongPassword == "WrongPassword123!"

\* A text of n letters.
RECURSIVE Letters(_)
Letters(n) ==
    IF n = 0 THEN "" ELSE IF n = 1 THEN "x" ELSE Letters(n \div 2) \o Letters(n - (n \div 2))

\* Passwords a client can send as new_password: a strong one, the same with
\* spaces around it, one of 126 letters followed by four spaces, one that is
\* too short, and a common one.
NewPasswords ==
    {NewPassword, "  " \o NewPassword \o " ", Letters(126) \o "    ", "short", "Password123"}

ProfilePayloads ==
    [email : {"", Email(2), "newemail@example.com"},
     current_password : {"", InitialPassword, WrongPassword, NewPassword},
     new_password : {""} \cup NewPasswords,
     notifications_enabled : {<<>>, <<FALSE>>}]

LoginEmails == {Email(1), "newemail@example.com"}

LoginPasswords == {InitialPassword, WrongPassword} \cup NewPasswords

InitProfile ==
    /\ AtRest
    /\ job_listings = <<>>
    /\ event = NoEvent

NextProfile ==
    /\ requests < MaxProfileRequests
    /\ requests' = requests + 1
    /\ \/ \E u \in Users, payload \in ProfilePayloads : update_profile(u, payload)
       \/ \E email \in LoginEmails, password \in LoginPasswords : login(email, password)

SpecProfile == InitProfile /\ [][NextProfile]_vars

\* ------------------------------------- the provider loop of search_jobs_for_user
providers == <<"FranceTravail", "Adzuna", "LinkedIn">>

\* The suggested queries of the profile analysis (at most max_queries are tried).
Queries == <<"data analyst", "analyste de données">>

\* The calls in the order the loops make them: every provider for the first
\* query, then every provider for the second.
CallOrder ==
    [i \in 1..(Len(Queries) * Len(providers)) |->
        <<Queries[((i - 1) \div Len(providers)) + 1], providers[((i - 1) % Len(providers)) + 1]>>]

\* What one fetcher call does: it raises (an error or a timeout), or it returns
\* a list of raw listings.
ProviderOutcomes ==
    {[raised |-> TRUE, jobs |-> <<>>]}
        \cup {[raised |-> FALSE, jobs |-> b] :
                b \in {<<>>, <<StoredUrl(1)>>, <<StoredUrl(2)>>, <<WithSlash(1)>>}}

ProviderCalls == [SeqToSet(CallOrder) -> ProviderOutcomes]

\* Faulty variant of Fetched: the first call that raises ends the loops.
RECURSIVE FetchedUntilFailure(_, _)
FetchedUntilFailure(calls, i) ==
    IF i > Len(CallOrder) THEN <<>>
    ELSE IF calls[CallOrder[i]].raised THEN <<>>
    ELSE calls[CallOrder[i]].jobs \o FetchedUntilFailure(calls, i + 1)

\* The raw listings the inner loop goes through, from call i on: jobs = [] when
\* the fetcher raised.
RECURSIVE Fetched(_, _)
Fetched(calls, i) ==
    IF i > Len(CallOrder) THEN <<>>
    ELSE (IF calls[CallOrder[i]].raised THEN <<>> ELSE calls[CallOrder[i]].jobs)
             \o Fetched(calls, i + 1)

InitProviders ==
    /\ AtRest
    /\ job_listings = <<>>
    /\ \E calls \in ProviderCalls :
          event = [type |-> "call", fn |-> "search_jobs_for_user", calls |-> calls]

Providers ==
    /\ event.type = "call"
    /\ event.fn = "search_jobs_for_user"
    /\ event' = [type |-> "return", fn |-> event.fn, calls |-> event.calls,
                 result |-> search_jobs_for_user(Fetched(event.calls, 1), 1,
                                                 get_or_create_pref(1))]
    /\ CallFrame

SpecProviders == InitProviders /\ [][Providers]_vars

\* ------------------------------------------------ what removes rows and listings
\* DELETE /profile: the CVs, the preferences and the rows of the user, then the
\* account; the listings are shared and stay.
delete_profile(u) ==
    /\ users[u] # NoUser
    /\ users' = [users EXCEPT ![u] = NoUser]
    /\ cvs' = [cvs EXCEPT ![u] = <<>>]
    /\ prefs' = [prefs EXCEPT ![u] = NoPref]
    /\ user_jobs' = [k \in Pairs |-> IF k[1] = u THEN <<>> ELSE user_jobs[k]]
    /\ search_runs' = [search_runs EXCEPT ![u] = <<>>]
    /\ reset_tokens' = SelectSeq(reset_tokens, LAMBDA row : row.user_id # u)
    /\ event' = [type |-> "delete_profile", user |-> u]
    /\ UNCHANGED <<now, requests, runs, job_listings, run, digests, last_pass>>

\* cleanup_old_jobs when some listing is older than OLD_JOB_DAYS: created_at
\* grows along the table, so the old listings are its first `old` ones.
cleanup_old_jobs(old) ==
    LET old_job_ids == {job_listings[i] : i \in 1..old} IN
    /\ old <= Len(job_listings)
    /\ user_jobs' = [k \in Pairs |-> IF k[2] \in old_job_ids THEN <<>> ELSE user_jobs[k]]
    /\ job_listings' = SubSeq(job_listings, old + 1, Len(job_listings))
    /\ event' = [type |-> "cleanup", count |-> old]
    /\ UNCHANGED <<search_runs, reset_tokens, users, now, requests, runs, prefs, cvs, run, digests, last_pass>>

\* The requests of the users, account deletion included, and the cleanup of
\* the scheduler.
NextStorage ==
    \/ UserRequest
    \/ \E u \in Users : delete_profile(u)
    \/ \E old \in 1..MaxJobs : cleanup_old_jobs(old)

SpecStorage == Init /\ [][NextStorage]_vars

\* ------------------------------------------- accounts created, renamed, deleted
\* One account exists; the other ids are free.
InitAccounts ==
    /\ now = 0
    /\ requests = 0
    /\ users = [u \in Users |-> IF u = 1 THEN Registered({1})[1] ELSE NoUser]
    /\ runs = 0
    /\ prefs = [u \in Users |-> NoPref]
    /\ cvs = [u \in Users |-> <<>>]
    /\ job_listings = <<>>
    /\ user_jobs = [k \in Pairs |-> <<>>]
    /\ run = [r \in Runners |-> Idle]
    /\ event = NoEvent
    /\ digests = [k \in Pairs |-> 0]
    /\ last_pass = [u \in Users |-> NULL]
    /\ search_runs = [u \in Users |-> <<>>]
    /\ reset_tokens = <<>>

RegisterEmails == {Email(1), Email(2), "newemail@example.com"}

RegisterPasswords == {InitialPassword, "Password123", "short"}

\* Payloads of PUT /profile that change the email or nothing.
EmailPayloads == {p \in ProfilePayloads : p.new_password = "" /\ p.current_password = ""}

AccountRequest ==
    /\ requests < MaxAccountRequests
    /\ requests' = requests + 1
    /\ \/ \E u \in Users, email \in RegisterEmails, password \in RegisterPasswords :
             register(u, email, password)
       \/ \E u \in Users, payload \in EmailPayloads : update_profile(u, payload)

NextAccounts ==
    \/ AccountRequest
    \/ \E u \in Users : delete_profile(u)

SpecAccounts == InitAccounts /\ [][NextAccounts]_vars

\* ------------------------------------------------ the requests of the users alone
\* Time passing between two requests.
ClockStep ==
    /\ now < MaxClock
    /\ now' = now + 1
    /\ event' = NoEvent
    /\ UNCHANGED <<search_runs, reset_tokens, users, requests, runs, prefs, cvs, job_listings, user_jobs, run, digests, last_pass>>

\* Longer sequences of requests, with no notification run in between.
NextLedger ==
    \/ Request(MaxLedgerRequests)
    \/ ClockStep

SpecLedger == Init /\ [][NextLedger]_vars

\* ------------------------------------------- unsubscribe links (api/notify.py)
\* db.query(User).filter(User.unsubscribe_token == token).first(): the users
\* holding the token (a null token matches nothing).
TokenHolders(table, token) ==
    {u \in Users : table[u] # NoUser /\ table[u].unsubscribe_token = <<token>>}

\* user.notifications_enabled = enabled for the holder of the token, if any.
SetNotifications(table, token, enabled) ==
    LET found == TokenHolders(table, token) IN
    IF found = {} THEN table
    ELSE [table EXCEPT ![CHOOSE u \in found : TRUE].notifications_enabled = enabled]

SubscriptionFrame ==
    UNCHANGED <<search_runs, reset_tokens, now, runs, prefs, cvs, job_listings, user_jobs, run, digests, last_pass>>

\* GET /notify/unsubscribe/{token}
unsubscribe_from_emails(token) ==
    /\ users' = SetNotifications(users, token, FALSE)
    /\ event' = [type |-> "unsubscribe", token |-> token,
                 success |-> TokenHolders(users, token) # {}]
    /\ SubscriptionFrame

\* GET /notify/resubscribe/{token}
resubscribe_to_emails(token) ==
    /\ users' = SetNotifications(users, token, TRUE)
    /\ event' = [type |-> "resubscribe", token |-> token,
                 success |-> TokenHolders(users, token) # {}]
    /\ SubscriptionFrame

\* The tokens tried: those of the users, and 0, a token no user was given.
LinkTokens == 0..MaxUsers

MaxLinkRequests == 2

\* The links are followed at any time, also while a run is under way.
NextSubscription ==
    \/ NoRunActive /\ Tick
    \/ NoRunActive /\ StartRun("scheduler")
    \/ RunStep("scheduler")
    \/ \E token \in LinkTokens :
          /\ requests < MaxLinkRequests
          /\ requests' = requests + 1
          /\ \/ unsubscribe_from_emails(token)
             \/ resubscribe_to_emails(token)

\* Every account enabled, none with preferences yet.
InitSubscription == Start(Users) /\ prefs = [u \in Users |-> NoPref]

SpecSubscription == InitSubscription /\ [][NextSubscription]_vars

\* ----------------------------------------------- searches and their records
\* The rows left by n earlier searches, one a minute, the last a minute ago.
Past(n) == [i \in 1..n |-> [id |-> i, created_at |-> i - n - 1]]

\* Users that have searched KEEP_RUNS times or once less, no preferences yet.
InitRuns ==
    /\ now = 0
    /\ requests = 0
    /\ users = Registered(FirstOnly)
    /\ runs = 0
    /\ prefs = [u \in Users |-> NoPref]
    /\ cvs = [u \in Users |-> IF u = 1 THEN <<[text |-> <<SampleCv>>]>> ELSE <<>>]
    /\ job_listings = <<>>
    /\ user_jobs = [k \in Pairs |-> <<>>]
    /\ run = [r \in Runners |-> Idle]
    /\ event = NoEvent
    /\ digests = [k \in Pairs |-> 0]
    /\ last_pass = [u \in Users |-> NULL]
    /\ \E n \in {KEEP_RUNS - 1, KEEP_RUNS} : search_runs = [u \in Users |-> Past(n)]
    /\ reset_tokens = <<>>

MaxSearchRequests == 1

SearchRequest ==
    /\ requests < MaxSearchRequests
    /\ requests' = requests + 1
    /\ \E u \in {v \in Users : users[v] # NoUser}, batch \in Batches : jobs_search_recorded(u, batch)

NextRuns ==
    \/ NoRunActive /\ Tick
    \/ NoRunActive /\ SearchRequest
    \/ NoRunActive /\ StartRun("scheduler")
    \/ Gate("scheduler")
    \/ \E batch \in Batches, usable \in BOOLEAN : SearchRecorded("scheduler", batch, usable)
    \/ Select("scheduler")
    \/ \E resend_ok, smtp_ok \in BOOLEAN : Send("scheduler", resend_ok, smtp_ok)

SpecRuns == InitRuns /\ [][NextRuns]_vars

\* ------------------------------------------ password reset (password_reset.py)
PASSWORD_RESET_EXPIRY_HOURS == 1

\* generate_secure_token: a token that is not in the table.
generate_secure_token(tokens) ==
    1 + Len(tokens)

\* UPDATE password_reset_tokens SET used = true WHERE user_id = ... AND NOT used
InvalidateTokens(tokens, user_id) ==
    [i \in DOMAIN tokens |->
        IF tokens[i].user_id = user_id /\ ~tokens[i].used
        THEN [tokens[i] EXCEPT !.used = TRUE] ELSE tokens[i]]

MaxResetTokens == 3

ResetFrame ==
    UNCHANGED <<search_runs, requests, runs, prefs, cvs, job_listings, user_jobs, run, digests, last_pass>>

\* POST /auth/password-reset/request: the answer is the same whether the
\* address is known or not; the outcome of the email is not looked at.
request_password_reset(email) ==
    LET found == {u \in Users : users[u] # NoUser /\ users[u].email = email} IN
    /\ Len(reset_tokens) < MaxResetTokens
    /\ reset_tokens' =
          IF found = {} THEN reset_tokens
          ELSE LET user_id == CHOOSE u \in found : TRUE IN
               Append(InvalidateTokens(reset_tokens, user_id),
                      [user_id |-> user_id, token |-> generate_secure_token(reset_tokens),
                       expires_at |-> now + 60 * PASSWORD_RESET_EXPIRY_HOURS,
                       used |-> FALSE])
    /\ event' = [type |-> "reset_request", email |-> email, status |-> 200]
    /\ UNCHANGED <<users, now>>
    /\ ResetFrame

\* PasswordResetConfirm: new_password of 8 to 128 characters.
PasswordResetConfirmValid(new_password) ==
    Len(new_password) >= PASSWORD_MIN /\ Len(new_password) <= PASSWORD_MAX

\* query(PasswordResetToken).filter(token == ..., used is False).first(): the
\* index of the row, 0 when there is none.
UnusedToken(tokens, token) ==
    LET found == {i \in DOMAIN tokens : tokens[i].token = token /\ ~tokens[i].used} IN
    IF found = {} THEN 0 ELSE CHOOSE i \in found : \A j \in found : i <= j

\* The response status of POST /auth/password-reset/confirm.  expires_at is a
\* DateTime column without time zone: read back without tzinfo (`aware` false),
\* its comparison with datetime.now(timezone.utc) raises TypeError, a 500.
ConfirmStatus(tokens, table, t, token, new_password, aware) ==
    IF ~PasswordResetConfirmValid(new_password) THEN 422
    ELSE IF UnusedToken(tokens, token) = 0 THEN 400
    ELSE IF ~aware THEN 500
    ELSE IF tokens[UnusedToken(tokens, token)].expires_at < t THEN 400
    ELSE IF table[tokens[UnusedToken(tokens, token)].user_id] = NoUser THEN 400
    ELSE IF ~sanitize_password(new_password).ok THEN 400
    ELSE 200

\* POST /auth/password-reset/confirm: an expired token is marked used; a
\* valid one sets the password and is marked used.
confirm_password_reset(token, new_password, aware) ==
    LET i == UnusedToken(reset_tokens, token)
        status == ConfirmStatus(reset_tokens, users, now, token, new_password, aware)
        expired == /\ PasswordResetConfirmValid(new_password)
                   /\ i # 0
                   /\ aware
                   /\ reset_tokens[i].expires_at < now
    IN
    /\ users' = IF status = 200
                THEN [users EXCEPT ![reset_tokens[i].user_id].password_hash =
                         hash_password(sanitize_password(new_password).cleaned)]
                ELSE users
    /\ reset_tokens' = IF status = 200 \/ expired
                       THEN [reset_tokens EXCEPT ![i].used = TRUE]
                       ELSE reset_tokens
    /\ event' = [type |-> "reset_confirm", token |-> token, new_password |-> new_password,
                 status |-> status]
    /\ UNCHANGED now
    /\ ResetFrame

\* Time passes until a token is about to expire, or has just expired.
Expire ==
    /\ \E i \in DOMAIN reset_tokens, late \in {0, 1} :
          /\ reset_tokens[i].expires_at + late > now
          /\ now' = reset_tokens[i].expires_at + late
    /\ event' = NoEvent
    /\ UNCHANGED <<users, reset_tokens>>
    /\ ResetFrame

ResetEmails == {Email(u) : u \in Users} \cup {"nobody@example.com"}

\* The tokens tried: those handed out, and 0, a token that was never made.
ResetTokens == 0..MaxResetTokens

ResetPasswords == {NewPassword, WrongPassword, "Password123", "short"}

InitReset == Start(FirstOnly) /\ prefs = [u \in Users |-> NoPref]

NextReset ==
    \/ \E email \in ResetEmails : request_password_reset(email)
    \/ \E token \in ResetTokens, new_password \in ResetPasswords, aware \in BOOLEAN :
          confirm_password_reset(token, new_password, aware)
    \/ Expire

SpecReset == InitReset /\ [][NextReset]_vars

\* ------------------------------------------------------ digest cycles, forever
\* The scheduler's cycles for users that are due, taken one user at a time and
\* repeated without end: selection, send, stamping (notify_all_users), and the
\* search of a later cycle that attaches a posting under an id whose former row
\* was stamped (the old listing was removed by cleanup_old_jobs, or the id
\* stands for the next posting: a stamped row is never selected again).
DigestScores == {5, 8}

InitDigest ==
    /\ now = 0
    /\ requests = 0
    /\ users = Registered(Users)
    /\ runs = 0
    /\ prefs \in [Users -> InitPrefRows]
    /\ cvs = [u \in Users |-> <<>>]
    /\ job_listings = [n \in 1..MaxJobs |-> n]
    /\ \E score \in [Pairs -> DigestScores] :
          user_jobs = [k \in Pairs |-> <<NewRow(score[k])>>]
    /\ run = [r \in Runners |-> Idle]
    /\ event = NoEvent
    /\ digests = [k \in Pairs |-> 0]
    /\ last_pass = [u \in Users |-> NULL]
    /\ search_runs = [u \in Users |-> <<>>]
    /\ reset_tokens = <<>>

\* One user's part of notify_all_users: get_top_unnotified_jobs, the email,
\* notified_at on the selected rows and last_email_at when the email was sent.
DigestCycle(u, accepted) ==
    \E top \in get_top_unnotified_jobs(user_jobs, job_listings, u, MaxJobsOf(prefs[u])) :
        LET email_sent == Called(top, prefs[u]) /\ accepted IN
        /\ notifications_enabled(u)
        /\ users' = get_or_create_unsubscribe_token(users, u)
        /\ user_jobs' = IF StampSelected(top, email_sent)
                        THEN StampRows(user_jobs, u, top, now) ELSE user_jobs
        /\ prefs' = IF AdvanceLastEmail(prefs[u], email_sent)
                    THEN [prefs EXCEPT ![u].last_email_at = now] ELSE prefs
        /\ event' = [type |-> "digest", user |-> u, sent |-> email_sent, top |-> top]
        /\ UNCHANGED <<search_runs, reset_tokens, now, requests, runs, cvs, job_listings, run, digests, last_pass>>

\* The search of a later cycle scores a posting the user has no row for.
Arrive(u, j, score) ==
    /\ user_jobs[<<u, j>>] # <<>>
    /\ user_jobs[<<u, j>>][1].notified_at # NULL
    /\ user_jobs' = [user_jobs EXCEPT ![<<u, j>>] = <<NewRow(score)>>]
    /\ event' = [type |-> "arrive", user |-> u, job |-> j]
    /\ UNCHANGED <<search_runs, reset_tokens, users, now, requests, runs, prefs, cvs, job_listings, run, digests, last_pass>>

NextDigest ==
    \/ \E u \in Users, accepted \in BOOLEAN : DigestCycle(u, accepted)
    \/ \E u \in Users, j \in Urls, score \in DigestScores : Arrive(u, j, score)

\* The scheduler runs a cycle every interval, and by the premise of the
\* property the digest of a cycle is accepted again and again.
SpecDigest ==
    /\ InitDigest
    /\ [][NextDigest]_vars
    /\ \A u \in Users : WF_vars(DigestCycle(u, TRUE))

\* ------------------------------------------------------------------ properties
\* C1: once a run has stamped notified_at on a ledger row, no later step on
\* that row (visit, save, unsave, status update, re-match, digest cycle) clears
\* it, and no later selection of get_top_unnotified_jobs contains the row.
C1_NotifiedAtPermanent ==
    [][ /\ \A k \in Pairs : \A i \in DOMAIN user_jobs[k] :
              (user_jobs[k][i].notified_at # NULL /\ i \in DOMAIN user_jobs'[k])
                  => user_jobs'[k][i].notified_at # NULL
        /\ event'.type = "select" =>
              \A n \in DOMAIN event'.top :
                  user_jobs'[<<event'.user, event'.top[n].job_id>>][event'.top[n].idx].notified_at = NULL
      ]_vars

\* A later selection runs while a row stamped earlier has been visited after
\* its notification and then set back to 'new'.
C1_Witness ==
    /\ event.type = "select"
    /\ \E j \in Urls :
          /\ j \in Stored(job_listings)
          /\ user_jobs[<<event.user, j>>] # <<>>
          /\ user_jobs[<<event.user, j>>][1].status = "new"
          /\ user_jobs[<<event.user, j>>][1].notified_at # NULL
          /\ user_jobs[<<event.user, j>>][1].viewed_at > user_jobs[<<event.user, j>>][1].notified_at

\* C2: in a digest cycle the selected rows are stamped and last_email_at is
\* advanced only if send_email_notification returned success in that cycle;
\* when it failed, the ledger and the preferences are unchanged and the selected
\* rows are still eligible for the next selection.
C2_StampOnlyOnSuccess ==
    [][ event'.type = "send" =>
          LET u == event'.user IN
          /\ (user_jobs' # user_jobs \/ prefs'[u].last_email_at # prefs[u].last_email_at)
                => event'.sent
          /\ ~event'.sent =>
                /\ user_jobs' = user_jobs
                /\ prefs' = prefs
                /\ \A n \in DOMAIN event'.top :
                      event'.top[n] \in Eligible(user_jobs', job_listings', u)
      ]_vars

\* Both transports failed for a digest that listed jobs.
C2_Witness ==
    /\ event.type = "send"
    /\ event.kind = "jobs"
    /\ event.calls = 1
    /\ ~event.sent

\* C3: for every user and job, the job is listed in at most one successfully
\* sent digest to that user.
C3_AtMostOneDigest == \A k \in Pairs : digests[k] <= 1

\* C4: with overlapping runs, a digest that is sent never lists a ledger row
\* that a sent digest has already stamped (the selection and the stamping of
\* one run are not interleaved with those of the other).
C4_NoRowInTwoDigests ==
    [][ (event'.type = "send" /\ event'.sent) =>
          \A n \in DOMAIN event'.top :
              LET k == <<event'.user, event'.top[n].job_id>>
                  i == event'.top[n].idx
              IN  i \in DOMAIN user_jobs[k] => user_jobs[k][i].notified_at = NULL
      ]_vars

\* C5: the gate skips the user exactly when last_search_at is set and
\* now < last_search_at + interval (1440 daily, 4320 every_3_days, 10080
\* weekly); a skipped user gets no search and no email, and the preferences,
\* the ledger and the listings are unchanged; a user who is not skipped goes on
\* to the search.
C5_CooldownGate ==
    [][ event'.type = "gate" =>
          LET u == event'.user
              r == event'.runner
              p == prefs[u]
              interval == IF p = NoPref THEN 4320
                          ELSE CASE p.notification_frequency = "daily" -> 1440
                                 [] p.notification_frequency = "every_3_days" -> 4320
                                 [] p.notification_frequency = "weekly" -> 10080
              due == \/ p = NoPref
                     \/ p.last_search_at = NULL
                     \/ event'.at >= p.last_search_at + interval
          IN  /\ event'.skipped <=> ~due
              /\ event'.skipped =>
                    /\ prefs' = prefs /\ user_jobs' = user_jobs
                    /\ job_listings' = job_listings /\ digests' = digests
                    /\ run'[r].todo = Tail(run[r].todo)
                    /\ run'[r].pc \in {"idle", "gate"}
              /\ ~event'.skipped => run'[r].pc = "search" /\ run'[r].todo = run[r].todo
      ]_vars

\* A daily user is skipped by a run 1439 minutes after the last search.
C5_Witness ==
    /\ event.type = "gate"
    /\ event.skipped
    /\ prefs[event.user].notification_frequency = "daily"
    /\ event.at = prefs[event.user].last_search_at + 1439

\* C6: between two consecutive gate passes of the same user at least the
\* frequency-derived interval elapses, whatever the first cycle's outcome.
C6_IntervalBetweenPasses ==
    [][ (event'.type = "gate" /\ ~event'.skipped /\ event'.previous # NULL) =>
          event'.at >= event'.previous + FREQUENCY_MINUTES(Frequency(prefs[event'.user]))
      ]_vars

\* C7: the gate's decision is the same in any two states that differ only in
\* last_email_at, at the instants around every cooldown boundary.
C7_GateIgnoresEmail ==
    \A u \in Users :
        prefs[u] # NoPref =>
            \A e \in {NULL, 0, now, prefs[u].last_search_at},
               t \in {now} \cup {Max2(prefs[u].last_search_at, 0) + d :
                                    d \in {0, 1439, 1440, 4319, 4320, 10079, 10080}} :
                CooldownSkip([prefs[u] EXCEPT !.last_email_at = e], t)
                    = CooldownSkip(prefs[u], t)

\* The gate skips a user whose last search is recorded and who has never been
\* sent an email (the earlier email failed or was skipped).
C7_Witness ==
    /\ event.type = "gate"
    /\ event.skipped
    /\ prefs[event.user].last_search_at # NULL
    /\ prefs[event.user].last_email_at = NULL

\* C8: with an empty selection and send_empty_digest false, send_email_notification
\* is not called and last_email_at and the ledger are unchanged; with
\* send_empty_digest true it is called exactly once, with the empty digest.
C8_EmptyDigest ==
    [][ (event'.type = "send" /\ event'.kind = "empty") =>
          LET u == event'.user IN
          /\ event'.top = <<>>
          /\ user_jobs' = user_jobs
          /\ IF prefs[u].send_empty_digest
             THEN event'.calls = 1
             ELSE event'.calls = 0 /\ ~event'.sent /\ prefs' = prefs
      ]_vars

\* An empty selection for a user who declined empty digests.
C8_Witness ==
    /\ event.type = "send"
    /\ event.kind = "empty"
    /\ ~prefs[event.user].send_empty_digest
    /\ event.calls = 0

\* C9: the selection holds at most limit rows (limit = the user's
\* notification_max_jobs, 5 when unset or 0), each a row of that user with
\* status 'new' and notified_at null, in non-increasing score order, and no
\* eligible row left out has a strictly higher score than a returned row.
C9_TopUnnotified ==
    event.type = "select" =>
        LET u == event.user
            top == event.top
            mj == prefs[u].notification_max_jobs
            limit == IF mj = NULL \/ mj = 0 THEN 5 ELSE mj
            Row(e) == user_jobs[<<e.user_id, e.job_id>>][e.idx]
            chosen == {<<top[n].job_id, top[n].idx>> : n \in DOMAIN top}
        IN  /\ Len(top) <= limit
            /\ \A n \in DOMAIN top :
                  /\ top[n].user_id = u
                  /\ top[n].idx \in DOMAIN user_jobs[<<u, top[n].job_id>>]
                  /\ Row(top[n]).status = "new"
                  /\ Row(top[n]).notified_at = NULL
                  /\ Row(top[n]).score = top[n].score
            /\ \A m, n \in DOMAIN top : m < n => top[m].score >= top[n].score
            /\ \A j \in Stored(job_listings) : \A i \in DOMAIN user_jobs[<<u, j>>] :
                  ( /\ user_jobs[<<u, j>>][i].status = "new"
                    /\ user_jobs[<<u, j>>][i].notified_at = NULL
                    /\ <<j, i>> \notin chosen )
                  => \A n \in DOMAIN top : top[n].score >= user_jobs[<<u, j>>][i].score

\* The limit binds: one row is returned and an eligible row is left out.
C9_Witness ==
    /\ event.type = "select"
    /\ Len(event.top) = 1
    /\ prefs[event.user].notification_max_jobs = 1
    /\ Cardinality(Eligible(user_jobs, job_listings, event.user)) >= 2

\* C10: in every reachable state the ledger holds at most one row per
\* (user, job) pair.
C10_OneRowPerPair == \A k \in Pairs : Len(user_jobs[k]) <= 1

\* The commit of one run meets the row another run has committed for the same
\* (user, job) pair in the meantime.
C10_Witness ==
    /\ event.type = "commit"
    /\ event.conflict
C15_StatusMachine ==
    [][ \A k \in Pairs : \A i \in DOMAIN user_jobs[k] :
          (i \in DOMAIN user_jobs'[k] /\ user_jobs'[k][i].status # user_jobs[k][i].status)
            => <<user_jobs[k][i].status, user_jobs'[k][i].status>> \in
                  { <<"new", "viewed">>, <<"new", "saved">>, <<"viewed", "saved">>,
                    <<"saved", "viewed">>, <<"new", "deleted">>, <<"viewed", "deleted">>,
                    <<"saved", "deleted">> }
      ]_vars

\* C16: a visit (without liveness probe) of a row whose viewed_at is already
\* set leaves status and viewed_at unchanged, so viewed_at is written at most
\* once over the life of the row.
C16_VisitIdempotent ==
    [][ /\ \A u \in Users, j \in Urls :
              ( /\ requests' = requests + 1
                /\ user_jobs[<<u, j>>] # <<>>
                /\ user_jobs[<<u, j>>][1].viewed_at # NULL
                /\ mark_visit(u, j, FALSE, TRUE) )
                  => user_jobs' = user_jobs
        /\ \A k \in Pairs : \A i \in DOMAIN user_jobs[k] :
              (i \in DOMAIN user_jobs'[k] /\ user_jobs[k][i].viewed_at # NULL)
                  => user_jobs'[k][i].viewed_at = user_jobs[k][i].viewed_at
      ]_vars

\* C17: save_job on an active row sets status 'saved', sets viewed_at exactly
\* when it was unset, and leaves notified_at, score and every other row unchanged.
C17_SaveJob ==
    [][ \A u \in Users, j \in Urls :
          ( /\ requests' = requests + 1
            /\ user_jobs[<<u, j>>] # <<>>
            /\ user_jobs[<<u, j>>][1].status # "deleted"
            /\ save_job(u, j) ) =>
              LET k == <<u, j>>
                  row == user_jobs[k][1]
              IN  /\ user_jobs' = [user_jobs EXCEPT ![k][1] =
                        [row EXCEPT !.status = "saved",
                                    !.viewed_at = IF row.viewed_at = NULL THEN now
                                                  ELSE row.viewed_at]]
                  /\ user_jobs'[k][1].notified_at = row.notified_at
                  /\ user_jobs'[k][1].score = row.score
      ]_vars

\* A row that was notified and viewed earlier is saved: its viewed_at is kept.
C17_Witness ==
    \E k \in Pairs :
        /\ user_jobs[k] # <<>>
        /\ user_jobs[k][1].status = "saved"
        /\ user_jobs[k][1].notified_at # NULL
        /\ user_jobs[k][1].viewed_at # NULL
        /\ user_jobs[k][1].viewed_at < now
        /\ event = NoEvent
        /\ requests > 0

\* C18: with check_url, the visit deletes the row and answers 410 without
\* marking it viewed exactly when the probe reports the URL gone; when the probe
\* reports alive it is a plain visit (a 'new' row becomes viewed, any other row
\* is unchanged, answer 200).
C18_VisitProbe ==
    [][ \A u \in Users, j \in Urls, alive \in BOOLEAN :
          (event'.type = "visit" /\ mark_visit(u, j, TRUE, alive)) =>
              LET k == <<u, j>>
                  row == user_jobs[k][1]
              IN  IF ~alive
                  THEN /\ event'.code = 410
                       /\ user_jobs' = [user_jobs EXCEPT ![k][1] =
                                          [row EXCEPT !.status = "deleted"]]
                  ELSE /\ event'.code = 200
                       /\ user_jobs' = IF row.status = "new"
                                       THEN [user_jobs EXCEPT ![k][1] =
                                               [row EXCEPT !.status = "viewed",
                                                           !.viewed_at = now]]
                                       ELSE user_jobs
      ]_vars

\* The probe reported the URL of a never-viewed row gone: 410, deleted, not viewed.
C18_Witness ==
    /\ event.type = "visit"
    /\ event.code = 410
    /\ \E k \in Pairs :
          /\ user_jobs[k] # <<>>
          /\ user_jobs[k][1].status = "deleted"
          /\ user_jobs[k][1].viewed_at = NULL
          /\ \A q \in Pairs \ {k} : user_jobs[q] = <<>>

\* C12: no two stored listings share a normalized URL, and ingesting raw URLs
\* that differ only by query, fragment or trailing slash, within one search or
\* across searches, completes without error.
C12_OneListingPerUrl ==
    /\ \A i, j \in DOMAIN job_listings :
          StoredUrl(job_listings[i]) = StoredUrl(job_listings[j]) => i = j
    /\ event.type = "search" => ~event.raised
\* C13: when an ingestion commits new listings of which one has a normalized
\* URL that a concurrent ingestion stored in the meantime, the commit does not
\* raise, and every listing the run collected is stored afterwards (its other
\* new listings inserted, the existing one attached).
C13_RaceAbsorbed ==
    [][ \A r \in Runners :
          ( /\ run[r].pc = "ingest"
            /\ run'[r] # run[r]
            /\ \A i, j \in DOMAIN run[r].records :
                  run[r].records[i] = run[r].records[j] => i = j
            /\ \E i \in DOMAIN run[r].records : run[r].records[i] \in Stored(job_listings) )
          => /\ ~event'.raised
             /\ SeqToSet(run[r].jobs) \subseteq Stored(job_listings')
      ]_vars
\* C19: is_job_url_alive reports a URL gone only on an explicit 404 or 410,
\* from the HEAD request or from the GET fallback sent after a 403/405; every
\* other outcome (timeout, connection error, other status, error in the
\* fallback) is reported alive.
C19_GoneOnlyOn404Or410 ==
    (event.type = "return" /\ event.fn = "is_job_url_alive") =>
        ( ~event.result <=>
            \/ event.head.kind = "HTTPError" /\ event.head.code \in {404, 410}
            \/ /\ event.head.kind = "HTTPError" /\ event.head.code \in {403, 405}
               /\ event.get.kind = "HTTPError" /\ event.get.code \in {404, 410} )
\* C14: a posting whose normalized title and company equal those of a stored
\* listing is recognised as that listing (no new listing is created) although
\* its URL differs, whatever the case, accents or punctuation of the stored
\* company and however many stored listings share the company prefix.
C14_FuzzyDuplicateFound ==
    (event.type = "return" /\ event.fn = "find_duplicate_job") =>
        ( ( /\ normalize_text(event.title) # ""
            /\ normalize_text(event.company) # ""
            /\ \E k \in Stored(job_listings) :
                  /\ normalize_text(StoredTitle(k)) = normalize_text(event.title)
                  /\ normalize_text(StoredCompany(k)) = normalize_text(event.company) )
          => event.result # NULL )

\* C20: score_job returns None for every job whose concatenated text contains
\* an avoid keyword as a case- and accent-insensitive substring, and for every
\* job whose known salary_min is below the preference's salary_min when that is
\* set; a job of unknown salary is never excluded for its salary.
C20_HardFilters ==
    (event.type = "return" /\ event.fn = "score_job") =>
        LET job == Catalog(event.job)
            pref == event.pref
            fold(t) == strip_accents(str_lower(t))
            whole == job.title \o " " \o job.company \o " " \o job.location
                        \o " " \o job.description
            avoided == \E k \in {str_strip(it) :
                                     it \in SeqToSet(split_commas(pref.avoid_keywords, ""))} :
                          k # "" /\ contains(fold(whole), fold(k))
            too_low == /\ pref.salary_min \notin {NULL, 0}
                       /\ job.salary_min # NULL
                       /\ job.salary_min < pref.salary_min
        IN  /\ (avoided \/ too_low) => event.result = NULL
            /\ (~avoided /\ job.salary_min = NULL) => event.result # NULL

\* C21: the numeric result of score_job lies in 0..100, its stored form
\* max(0, min(10, round(score / 10))) lies in 0..10, and the conversion is
\* monotonic: a lower score never gets a higher stored form.
C21_ScoreRange ==
    (event.type = "return" /\ event.fn = "match" /\ event.result # NULL) =>
        /\ event.result \in 0..100
        /\ Score10(event.result) \in 0..10
        /\ \A s \in 0..100 :
              /\ s <= event.result => Score10(s) <= Score10(event.result)
              /\ s >= event.result => Score10(s) >= Score10(event.result)

\* The bonuses of a job add up to more than 100 and the result is 100.
C21_Witness ==
    /\ event.type = "return"
    /\ event.fn = "match"
    /\ event.result = 100
    /\ RawScore(Catalog(event.job), event.pref, KeywordTable[event.cv]) > 100

\* A reason starts with the label of its kind.
HasReason(reasons, label) ==
    \E i \in DOMAIN reasons :
        Len(reasons[i]) >= Len(label) /\ SubSeq(reasons[i], 1, Len(label)) = label

\* C22: every reason _extract_match_reasons returns corresponds to a bonus
\* score_job added for the same inputs: a role or near-role reason only with
\* the role bonus, a location reason only with the location bonus, a keyword
\* reason only with the must-keyword bonus, a CV reason only with the
\* CV-overlap bonus.
C22_ReasonsAreBonuses ==
    (event.type = "return" /\ event.fn = "match" /\ event.result # NULL) =>
        LET job == Catalog(event.job) IN
        /\ HasReason(event.reasons, "Rôle") => RoleBonus(job, event.pref) > 0
        /\ HasReason(event.reasons, "Localisation: ") => LocationBonus(job, event.pref) > 0
        /\ HasReason(event.reasons, "Mot-clé: ") => MustBonus(job, event.pref) > 0
        /\ HasReason(event.reasons, "CV: ")
              => CvBonus(job, event.pref, KeywordTable[event.cv]) > 0


\* C23: a ledger row is created only for a job score_job does not exclude for
\* that user, and every created row has status 'new', notified_at = null and
\* a score in 0..10.
C23_RowsOnlyForScoredJobs ==
    [][ \A k \in Pairs :
          Len(user_jobs'[k]) > Len(user_jobs[k]) =>
              /\ prefs'[k[1]] # NoPref
              /\ ~Excluded(Catalog(k[2]), prefs'[k[1]])
              /\ \A i \in (Len(user_jobs[k]) + 1)..Len(user_jobs'[k]) :
                    /\ user_jobs'[k][i].status = "new"
                    /\ user_jobs'[k][i].notified_at = NULL
                    /\ user_jobs'[k][i].score \in 0..10
      ]_vars

\* A search stored two listings for a user who avoids the words of the second:
\* the first got a row, the second none.
C23_Witness ==
    /\ event.type = "search"
    /\ ~event.raised
    /\ \E u \in Users :
          /\ event.user = u
          /\ prefs[u] # NoPref
          /\ job_listings = <<1, 2>>
          /\ user_jobs[<<u, 1>>] # <<>>
          /\ user_jobs[<<u, 1>>][1].status = "new"
          /\ user_jobs[<<u, 1>>][1].notified_at = NULL
          /\ ~Excluded(Catalog(1), prefs[u])
          /\ user_jobs[<<u, 2>>] = <<>>
          /\ Excluded(Catalog(2), prefs[u])

\* C24: send_email_via_resend makes at most max_retries (3) attempts: it stops at
\* the first success, makes a further attempt only after a network error, a 5xx
\* response or a 429, and after any other 4xx response it returns failure at
\* once, with no further attempt and no backoff sleep after that response.
Retryable(outcome) ==
    \/ outcome.kind \in {"timeout", "URLError"}
    \/ outcome.kind = "HTTPError" /\ (outcome.code >= 500 \/ outcome.code = 429)

C24_ResendRetries ==
    (event.type = "return" /\ event.fn = "send_email_via_resend" /\ event.configured) =>
        /\ event.sent.attempts \in 1..max_retries
        /\ \A i \in 1..(event.sent.attempts - 1) : Retryable(event.outcomes[i])
        /\ event.sent.result = (event.outcomes[event.sent.attempts].kind = "ok")
        /\ Len(event.sent.sleeps) = event.sent.attempts - 1
        /\ (event.sent.attempts < max_retries) =>
               ~Retryable(event.outcomes[event.sent.attempts])

\* A 429 is retried after a sleep of one second and a 403 then ends the call
\* after two attempts.
C24_Witness ==
    /\ event.type = "return"
    /\ event.fn = "send_email_via_resend"
    /\ event.configured
    /\ event.outcomes[1] = [kind |-> "HTTPError", code |-> 429]
    /\ event.outcomes[2] = [kind |-> "HTTPError", code |-> 403]
    /\ event.sent = [result |-> FALSE, attempts |-> 2, sleeps |-> <<1>>]

\* C25: send_email_via_smtp returns failure after a single attempt when that
\* attempt ends in an authentication failure, a recipient rejection or a sender
\* rejection, and retries every other error up to 3 attempts in total.
C25_SmtpNoRetryAfterRejection ==
    (event.type = "return" /\ event.fn = "send_email_via_smtp" /\ event.configured) =>
        /\ event.sent.attempts \in 1..max_retries
        /\ \A i \in 1..(event.sent.attempts - 1) :
              event.outcomes[i] \notin SmtpRejections \cup {"ok"}
        /\ (event.sent.attempts < max_retries) =>
               event.outcomes[event.sent.attempts] \in SmtpRejections \cup {"ok"}

\* C26: within one notify_all_users tick a failure while processing one user
\* never prevents the remaining users from being processed: the run ends only
\* after the last user of the tick, so every later user gets the cooldown check.
C26_LaterUsersProcessed ==
    [][\A r \in Runners :
          (run[r].pc # "idle" /\ run'[r].pc = "idle") => Tail(run[r].todo) = <<>>]_vars

\* C27: in search_jobs_for_user a provider call that raises or times out
\* contributes no listing, and the other providers and the other queries are
\* still called and their listings ingested: on empty tables the listings stored
\* are exactly those the calls that returned gave, and the commit fails only on
\* a listing that two of those calls both gave.
Returned(calls) == {c \in DOMAIN calls : ~calls[c].raised}

C27_FailedCallGivesNothing ==
    (event.type = "return" /\ event.fn = "search_jobs_for_user") =>
        LET given == {<<c, n>> \in Returned(event.calls) \X (1..MaxJobs) :
                          n <= Len(event.calls[c].jobs)}
            wanted == {RecordOf(event.calls[p[1]].jobs[p[2]]) : p \in given}
        IN  /\ event.result.raised = (Cardinality(given) # Cardinality(wanted))
            /\ ~event.result.raised => Stored(event.result.listings) = wanted

\* The first call of the first query raises; the listing of a later provider
\* and the listing of the second query are both stored.
C27_Witness ==
    /\ event.type = "return"
    /\ event.fn = "search_jobs_for_user"
    /\ event.calls[<<Queries[1], "FranceTravail">>].raised
    /\ event.calls[<<Queries[1], "Adzuna">>].jobs = <<StoredUrl(1)>>
    /\ event.calls[<<Queries[2], "LinkedIn">>].jobs = <<StoredUrl(2)>>
    /\ event.result.listings = <<1, 2>>

\* C28: a ledger row or a job listing is removed from storage only by the
\* cleanup of stale listings or by the deletion of an account; no request of
\* another kind (search, visit, save, unsave, preference update, CV upload,
\* removal from the dashboard) makes a row or a listing disappear.
C28_RemovedOnlyByCleanupOrDeletion ==
    [][(\/ \E k \in Pairs : Len(user_jobs'[k]) < Len(user_jobs[k])
        \/ \E j \in Stored(job_listings) : j \notin Stored(job_listings'))
          => event'.type \in {"cleanup", "delete_profile"}]_vars

\* C29: cv_keywords returns at most 40 tokens of the user's latest CV, each
\* lowercase, none a stop word, none purely numeric, none shorter than 3
\* characters, and no token left out is more frequent than a token returned;
\* with no CV, or a CV whose text is null or empty, it returns the empty set.
C29_KeywordsOfLatestCv ==
    (event.type = "return" /\ event.fn = "cv_keywords") =>
        LET rows == cvs[event.user]
            blank == rows = <<>> \/ rows[1].text = <<>> \/ rows[1].text = <<"">>
            tokens == IF blank THEN <<>> ELSE findall_tokens(str_lower(rows[1].text[1]))
            Allowed(w) == /\ Len(w) >= 3
                          /\ w \notin STOP_WORDS
                          /\ \E i \in 1..Len(w) : Ch(w, i) \notin DigitChars
        IN  /\ blank => event.result = {}
            /\ Cardinality(event.result) <= 40
            /\ \A w \in event.result :
                  /\ Allowed(w)
                  /\ str_lower(w) = w
                  /\ w \in SeqToSet(tokens)
            /\ \A v \in SeqToSet(tokens) \ event.result :
                  Allowed(v) =>
                      /\ Cardinality(event.result) = 40
                      /\ \A w \in event.result :
                            Occurrences(tokens, v) <= Occurrences(tokens, w)

\* A CV with 46 distinct words: 40 are kept, the repeated word among them and
\* the last of the words seen once left out; an older CV is not read.
C29_Witness ==
    /\ event.type = "return"
    /\ event.fn = "cv_keywords"
    /\ Len(cvs[1]) = 2
    /\ cvs[1][1].text = <<LongCv>>
    /\ cvs[1][2].text = <<SampleCv>>
    /\ Cardinality(event.result) = 40
    /\ "python" \in event.result
    /\ "skill44" \notin event.result
    /\ "analytics" \notin event.result

\* C30: update_profile changes the stored password only when the supplied
\* current password verifies: a request with new_password but with no or a
\* wrong current_password is answered 400 and changes no field of any account;
\* and after a successful change the login with the new password succeeds.
C30_PasswordChange ==
    [][(event'.type = "profile" /\ event'.payload.new_password # "") =>
          /\ ~verify_password(event'.payload.current_password,
                              users[event'.user].password_hash)
                => (event'.status = 400 /\ users' = users)
          /\ event'.status = 200
                => login_status(users', users'[event'.user].email,
                                event'.payload.new_password) = 200]_vars

\* C31: no two accounts ever share an email address after any sequence of
\* register and update_profile calls: a registration with an email already
\* registered is answered 400 and creates no account, and a change of email to
\* an address another account uses is answered 400 and changes nothing.
EmailsDistinct(table) ==
    \A u, v \in Users :
        (u # v /\ table[u] # NoUser /\ table[v] # NoUser) => table[u].email # table[v].email

C31_EmailsUnique ==
    [][/\ EmailsDistinct(users')
       /\ (/\ event'.type = "register"
           /\ RegisterInValid(event'.password)
           /\ EmailTaken(users, event'.email))
             => (event'.status = 400 /\ users' = users)
       /\ (/\ event'.type = "profile"
           /\ event'.payload.email # ""
           /\ event'.payload.email # users[event'.user].email
           /\ EmailTaken(users, event'.payload.email))
             => (event'.status = 400 /\ users' = users)]_vars

\* Two accounts exist and the second has just been refused the address of the
\* first.
C31_Witness ==
    /\ users[1] # NoUser
    /\ users[2] # NoUser
    /\ event.type = "profile"
    /\ event.user = 2
    /\ event.payload.email = users[1].email
    /\ event.status = 400

\* C32: send_email_notification tries the Resend transport first and the SMTP
\* transport only after Resend returned failure, so at most one transport
\* accepts the message; it returns success exactly when one transport did, and
\* it ends after at most 3 Resend attempts and 3 SMTP attempts.
C32_OneTransportAccepts ==
    (event.type = "return" /\ event.fn = "send_email_notification") =>
        /\ event.sent.smtp_called = ~event.sent.resend.result
        /\ ~event.sent.smtp_called => event.sent.smtp.attempts = 0
        /\ ~(event.sent.resend.result /\ event.sent.smtp.result)
        /\ event.sent.result = (event.sent.resend.result \/ event.sent.smtp.result)
        /\ event.sent.resend.attempts <= max_retries
        /\ event.sent.smtp.attempts <= max_retries

\* Resend fails three times, then SMTP accepts the message at its third attempt.
C32_Witness ==
    /\ event.type = "return"
    /\ event.fn = "send_email_notification"
    /\ event.sent.resend = [result |-> FALSE, attempts |-> 3, sleeps |-> <<1, 2>>]
    /\ event.sent.smtp = [result |-> TRUE, attempts |-> 3, sleeps |-> <<1, 2>>]
    /\ event.sent.result

\* C33: a request served for one user leaves the ledger rows of every other
\* user as they were and deletes no listing that a row of another user
\* references: some user exists (the one served) such that nothing of the
\* others changed.
C33_OtherUsersUntouched ==
    [][(requests' = requests + 1) =>
          \E u \in Users :
              \A v \in Users \ {u}, j \in Urls :
                  /\ user_jobs'[<<v, j>>] = user_jobs[<<v, j>>]
                  /\ (user_jobs[<<v, j>>] # <<>> /\ j \in Stored(job_listings))
                        => j \in Stored(job_listings')]_vars


\* A row that is 'new' and not yet stamped / a row that is stamped.
RowWaiting(k) ==
    /\ user_jobs[k] # <<>>
    /\ user_jobs[k][1].status = "new"
    /\ user_jobs[k][1].notified_at = NULL

RowStamped(k) == user_jobs[k] # <<>> /\ user_jobs[k][1].notified_at # NULL

Listed(top, k) == \E n \in 1..Len(top) : top[n].user_id = k[1] /\ top[n].job_id = k[2]

\* A successful digest stamps exactly the rows it listed; every other row,
\* the eligible rows beyond max_jobs included, is left as it was.
StampedExactlyListed ==
    [][(event'.type = "digest" /\ user_jobs' # user_jobs) =>
          /\ event'.sent
          /\ \A k \in Pairs :
                IF Listed(event'.top, k)
                THEN /\ RowWaiting(k)
                     /\ user_jobs'[k] = <<[user_jobs[k][1] EXCEPT !.notified_at = now]>>
                ELSE user_jobs'[k] = user_jobs[k]]_vars

\* C34 as stated: a successful digest stamps exactly the listed rows, and
\* while cycles keep occurring and sends succeed, every eligible row is
\* eventually stamped by a digest (or stops being 'new').
C34_EveryRowEventuallySent ==
    /\ StampedExactlyListed
    /\ \A k \in Pairs : RowWaiting(k) ~> ~RowWaiting(k)

\* C34 amended: a successful digest stamps exactly the listed rows, and every
\* eligible row is eventually stamped provided that, from some cycle on, the
\* searches attach no further posting for the user.
C34_EventuallySentOnceArrivalsStop ==
    /\ StampedExactlyListed
    /\ \A k \in Pairs :
          <>[](event.type # "arrive") => (RowWaiting(k) ~> RowStamped(k))

\* C34 witness: a digest was sent that listed and stamped one row of the user
\* while another eligible row of the same user stayed unstamped.
C34_Witness ==
    /\ event.type = "digest"
    /\ event.sent
    /\ Len(event.top) = 1
    /\ RowStamped(<<event.user, event.top[1].job_id>>)
    /\ \E j \in Urls : j # event.top[1].job_id /\ RowWaiting(<<event.user, j>>)


\* C35: in every reachable state, a ledger row whose status is 'viewed' or
\* 'saved' has viewed_at set, whatever the sequence of visit, save, unsave and
\* status-update requests.
C35_ViewedHasTimestamp ==
    \A k \in Pairs : \A i \in DOMAIN user_jobs[k] :
        user_jobs[k][i].status \in {"viewed", "saved"} => user_jobs[k][i].viewed_at # NULL


\* C36: while a user's notifications are disabled (after an unsubscribe with
\* a valid token, until a resubscribe), no step of notify_all_users searches
\* for that user or attempts an email to that user; and an unsubscribe or
\* resubscribe with an unknown token changes no user's state.
C36_UnsubscribedLeftAlone ==
    [][/\ \A u \in Users :
            (users[u] # NoUser /\ ~users[u].notifications_enabled) =>
                ~(/\ event'.type \in {"search", "send"}
                  /\ event'.user = u
                  /\ event'.type = "send" => event'.calls = 1)
       /\ (event'.type \in {"unsubscribe", "resubscribe"} /\ ~event'.success) =>
             users' = users]_vars


\* C37: after each completed search, from the scheduler (notify_all_users) or
\* on demand (POST /jobs/search), the user has at most 8 stored JobSearchRun
\* rows, and no deleted row is more recent than a row that was kept.
C37_EightMostRecentRuns ==
    [][\A u \in Users :
          search_runs'[u] # search_runs[u] =>
             /\ Len(search_runs'[u]) <= KEEP_RUNS
             /\ \A i \in DOMAIN search_runs[u], j \in DOMAIN search_runs'[u] :
                   (\A k \in DOMAIN search_runs'[u] : search_runs'[u][k].id # search_runs[u][i].id)
                      => search_runs[u][i].created_at <= search_runs'[u][j].created_at]_vars


\* The rows of the token: it can still be used at time t when one of them is
\* unused, not past its expiry, and the newest row of its user.
Usable(tokens, token, t) ==
    \E i \in DOMAIN tokens :
        /\ tokens[i].token = token
        /\ ~tokens[i].used
        /\ tokens[i].expires_at >= t
        /\ \A j \in DOMAIN tokens : tokens[j].user_id = tokens[i].user_id => j <= i

\* C38: a password-reset token changes the password at most once, and only
\* while it is the user's newest unexpired token: a confirm changes nothing
\* but the password of the token's user, a confirm that changes it marks the
\* token used for good, and a confirm with a token that was used (by a
\* successful confirm, by a confirm past its expiry, or by a newer request) or
\* that is expired gets 400 (for a well-formed body) and changes no account.
C38_TokenUsedOnce ==
    [][/\ \A i \in DOMAIN reset_tokens :
             reset_tokens[i].used => i \in DOMAIN reset_tokens' /\ reset_tokens'[i].used
       /\ event'.type = "reset_confirm" =>
             /\ users' # users =>
                   /\ Usable(reset_tokens, event'.token, now)
                   /\ event'.status = 200
                   /\ ~Usable(reset_tokens', event'.token, now')
                   /\ \A u \in Users :
                         users'[u] # users[u] =>
                            /\ \E i \in DOMAIN reset_tokens :
                                  reset_tokens[i].token = event'.token /\ reset_tokens[i].user_id = u
                            /\ users'[u] = [users[u] EXCEPT !.password_hash = users'[u].password_hash]
             /\ ~Usable(reset_tokens, event'.token, now) =>
                   /\ users' = users
                   /\ PasswordResetConfirmValid(event'.new_password) => event'.status = 400]_vars

====
